---------------------------- MODULE Spec2Model ----------------------------
(***************************************************************************)
(* Blackjack engine of src/cogs/blackjack.py: the hand evaluator, the solo *)
(* session (BlackjackSession + BlackjackUI) and the table session          *)
(* (BlackjackTableSession + BlackjackTableLobby + BlackjackTableGame).     *)
(*                                                                         *)
(* A shoe is a Python list shuffled by random.shuffle and consumed with    *)
(* pop(); its order is never read in any other way, so the shoe is kept as *)
(* the bag of the cards still in it and a draw takes any one of them.      *)
(***************************************************************************)
EXTENDS Integers, Sequences, FiniteSets, Bags, TLC

VARIABLES
    table,        \* the BlackjackTableSession object (its fields)
    game_view,    \* the BlackjackTableGame view: "none", "enabled", "disabled"
    solo,         \* the BlackjackSession object (its fields)
    ui_views,     \* the BlackjackUI views on the solo session: [disabled] each
    settle_calls, \* history: number of calls of BlackjackSession.settle so far
    last,         \* the last request handled and the response it produced
    dealer_play_calls, \* history: calls of BlackjackSession.dealer_play that returned
    dealer_pc,    \* "loop" inside the while loop of dealer_play, else "idle"
    cog,          \* the Blackjack cog: its two registries sessions and table_sessions
    heap,         \* the session objects made so far; a reference is an index
    views,        \* the views the bot listens to, each on one session object
    tasks,        \* the handlers that are suspended at an await or not yet run
    deck_ranks    \* the ranks make_deck() deals: fixed by Init, never changed

table_vars == <<table, game_view>>

solo_vars == <<solo, ui_views, settle_calls, dealer_play_calls, dealer_pc>>

cog_vars == <<cog, heap, views, tasks>>

vars == <<table, game_view, solo, ui_views, settle_calls, last, dealer_play_calls,
          dealer_pc, cog, heap, views, tasks, deck_ranks>>

----------------------------------------------------------------------------
(* Bounds *)

NumUsers == 2      \* identities that can send requests
MaxViews == 3      \* BlackjackUI views attached to one solo session in the model
NumEvalRanks == 4  \* ranks of the hands given to settle(): the first of RankOrder
MaxEvalLen == 3    \* longest hand given to settle()

Users == 1..NumUsers

\* The seats of a table of the model: the host's and one more. A table of
\* three seats has 4 million states; the users beyond the seats stay
\* bystanders, whose requests are answered like anyone's.
SeatNumbers == {1, 2}
None == 0          \* Python None where an identity is expected

----------------------------------------------------------------------------
(* Cards and the hand evaluator *)

\* the thirteen ranks, those that make the settlement cases first
RankOrder == <<"A", "K", "9", "10", "5", "J", "Q", "2", "3", "4", "6", "7", "8">>

\* The shoes of the model hold two of the thirteen ranks in one of the four
\* suits, so make_deck() + make_deck() is the four cards A A K K: every
\* order of every shoe is explored, a deal empties the shoe and the refill
\* branch of draw() is taken in play.  Init gives the ranks to deck_ranks.
RANKS == {"A", "K"}

SUITS == {"S"}

Digits == <<"2", "3", "4", "5", "6", "7", "8", "9", "10">>

\* int(rank) for the ranks "2".."10"
int_of(rank) == 1 + (CHOOSE i \in 1..Len(Digits) : Digits[i] = rank)

make_deck == SetToBag({<<r, s>> : r \in deck_ranks, s \in SUITS})

new_deck == make_deck (+) make_deck

card_value(rank) ==
    IF rank \in {"J", "Q", "K"} THEN 10
    ELSE IF rank = "A" THEN 11
    ELSE int_of(rank)

\* the sum loop with `total = v` where the code has `total += v`
sum_values_last_only(cards) ==
    IF cards = <<>> THEN 0
    ELSE card_value(cards[Len(cards)][1])

RECURSIVE sum_values(_)
sum_values(cards) ==
    IF cards = <<>> THEN 0
    ELSE card_value(Head(cards)[1]) + sum_values(Tail(cards))

RECURSIVE count_aces(_)
count_aces(cards) ==
    IF cards = <<>> THEN 0
    ELSE (IF Head(cards)[1] = "A" THEN 1 ELSE 0) + count_aces(Tail(cards))

\* the ace loop with an `if` where the code has its `while`
adjust_aces_once(total, aces) ==
    IF total > 21 /\ aces > 0 THEN total - 10
    ELSE total

\* while total > 21 and aces > 0: total -= 10; aces -= 1
RECURSIVE adjust_aces(_, _)
adjust_aces(total, aces) ==
    IF total > 21 /\ aces > 0 THEN adjust_aces(total - 10, aces - 1)
    ELSE total

\* hand_value that calls every 21 a blackjack
hand_value_any_21(cards) ==
    LET total == adjust_aces(sum_values(cards), count_aces(cards))
    IN  <<total, total = 21>>

\* returns <<value, is_blackjack>>
hand_value(cards) ==
    LET total == adjust_aces(sum_values(cards), count_aces(cards))
    IN  <<total, Len(cards) = 2 /\ total = 21>>

----------------------------------------------------------------------------
(* BlackjackTableSession *)

EmptyMap == [u \in {} |-> <<>>]

TableSession(host) ==
    [host_id    |-> host,
     deck       |-> new_deck,
     dealer     |-> <<>>,
     players    |-> EmptyMap,
     order      |-> <<>>,
     turn_index |-> 0,
     started    |-> FALSE,
     finished   |-> FALSE,
     results    |-> EmptyMap]

\* draw() that refills the shoe with make_deck(), one deck
draw_from_one_deck(fresh, deck) ==
    LET d == IF deck = EmptyBag THEN SetToBag(BagToSet(fresh)) ELSE deck
    IN  {<<c, d (-) SetToBag({c})>> : c \in BagToSet(d)}

\* draw() on a shoe whose refill make_deck() + make_deck() is `fresh`: the
\* set of <<card, remaining deck>> outcomes
draw_from(fresh, deck) ==
    LET d == IF deck = EmptyBag THEN fresh ELSE deck
    IN  {<<c, d (-) SetToBag({c})>> : c \in BagToSet(d)}

\* draw() on the shoe of the model's sessions
draw(deck) == draw_from(new_deck, deck)

\* [draw(), draw()]: the set of <<two cards, remaining deck>> outcomes
draw_two(deck) ==
    UNION {{<<<<a[1], b[1]>>, b[2]>> : b \in draw(a[2])} : a \in draw(deck)}

\* list.remove(x): drops the first occurrence
RECURSIVE list_remove(_, _)
list_remove(seq, x) ==
    IF seq = <<>> THEN <<>>
    ELSE IF Head(seq) = x THEN Tail(seq)
    ELSE <<Head(seq)>> \o list_remove(Tail(seq), x)

\* add_player without the check of the hand map: a seated identity sits again
add_player_again(s, user_id) ==
    IF s.started \/ s.finished THEN <<FALSE, s>>
    ELSE <<TRUE, [s EXCEPT !.players = (user_id :> <<>>) @@ s.players,
                           !.order = Append(s.order, user_id)]>>

\* add_player without the check of started
add_player_late(s, user_id) ==
    IF s.finished THEN <<FALSE, s>>
    ELSE IF user_id \in DOMAIN s.players THEN <<FALSE, s>>
    ELSE <<TRUE, [s EXCEPT !.players = (user_id :> <<>>) @@ s.players,
                           !.order = Append(s.order, user_id)]>>

\* returns <<ok, session>>
add_player(s, user_id) ==
    IF s.started \/ s.finished THEN <<FALSE, s>>
    ELSE IF user_id \in DOMAIN s.players THEN <<FALSE, s>>
    ELSE <<TRUE, [s EXCEPT !.players = (user_id :> <<>>) @@ s.players,
                           !.order = Append(s.order, user_id)]>>

\* remove_player without the check of started and finished
remove_player_anytime(s, user_id) ==
    IF user_id \notin DOMAIN s.players THEN <<FALSE, s>>
    ELSE <<TRUE, [s EXCEPT !.players = [u \in DOMAIN s.players \ {user_id} |-> s.players[u]],
                           !.order = list_remove(s.order, user_id)]>>

\* returns <<ok, session>>
remove_player(s, user_id) ==
    IF s.started \/ s.finished THEN <<FALSE, s>>
    ELSE IF user_id \notin DOMAIN s.players THEN <<FALSE, s>>
    ELSE <<TRUE, [s EXCEPT !.players = [u \in DOMAIN s.players \ {user_id} |-> s.players[u]],
                           !.order = list_remove(s.order, user_id)]>>

\* for uid in self.order: self.players[uid] = [self.draw(), self.draw()]
RECURSIVE deal_players(_, _)
deal_players(s, i) ==
    IF i > Len(s.order) THEN {s}
    ELSE UNION {deal_players([s EXCEPT !.players = (s.order[i] :> d[1]) @@ s.players,
                                       !.deck = d[2]], i + 1) : d \in draw_two(s.deck)}

\* start without the check of started: an Active table is dealt again
table_start_again(s) ==
    IF s.finished THEN {<<FALSE, s>>}
    ELSE IF s.order = <<>> THEN {<<FALSE, s>>}
    ELSE {<<TRUE, [t EXCEPT !.turn_index = 0]>> :
            t \in UNION {deal_players([s EXCEPT !.started = TRUE,
                                                !.dealer = d[1],
                                                !.deck = d[2]], 1) : d \in draw_two(s.deck)}}

\* the set of <<ok, session>> outcomes
table_start(s) ==
    IF s.started \/ s.finished THEN {<<FALSE, s>>}
    ELSE IF s.order = <<>> THEN {<<FALSE, s>>}
    ELSE {<<TRUE, [t EXCEPT !.turn_index = 0]>> :
            t \in UNION {deal_players([s EXCEPT !.started = TRUE,
                                                !.dealer = d[1],
                                                !.deck = d[2]], 1) : d \in draw_two(s.deck)}}

current_player_id(s) ==
    IF ~s.started \/ s.finished THEN None
    ELSE IF s.turn_index < 0 \/ s.turn_index >= Len(s.order) THEN None
    ELSE s.order[s.turn_index + 1]

\* self.players.get(uid, [])
hand_of(s, uid) == IF uid \in DOMAIN s.players THEN s.players[uid] ELSE <<>>

\* the set of sessions dealer_play() can end in
\* dealer_play with an `if` where the code has its `while`: one card at most
table_dealer_play_once(s) ==
    IF hand_value(s.dealer)[1] < 17
    THEN {[s EXCEPT !.dealer = Append(s.dealer, d[1]), !.deck = d[2]] : d \in draw(s.deck)}
    ELSE {s}

RECURSIVE table_dealer_play(_)
table_dealer_play(s) ==
    IF hand_value(s.dealer)[1] < 17
    THEN UNION {table_dealer_play([s EXCEPT !.dealer = Append(s.dealer, d[1]),
                                            !.deck = d[2]]) : d \in draw(s.deck)}
    ELSE {s}

\* settle_all with the hand of the first seat compared for every seat
settle_all_first_seat(s) ==
    LET dv  == hand_value(s.dealer)[1]
        dbj == hand_value(s.dealer)[2]
        pv  == hand_value(s.players[s.order[1]])[1]
        pbj == hand_value(s.players[s.order[1]])[2]
        res == IF pv > 21 THEN "lose"
               ELSE IF dv > 21 THEN "win"
               ELSE IF pbj /\ ~dbj THEN "win"
               ELSE IF dbj /\ ~pbj THEN "lose"
               ELSE IF pv > dv THEN "win"
               ELSE IF pv < dv THEN "lose"
               ELSE "push"
    IN  [s EXCEPT !.results = [uid \in DOMAIN s.players |-> res] @@ s.results,
                  !.finished = TRUE]

settle_all(s) ==
    LET dv  == hand_value(s.dealer)[1]
        dbj == hand_value(s.dealer)[2]
        res(uid) ==
            LET pv  == hand_value(s.players[uid])[1]
                pbj == hand_value(s.players[uid])[2]
            IN  IF pv > 21 THEN "lose"
                ELSE IF dv > 21 THEN "win"
                ELSE IF pbj /\ ~dbj THEN "win"
                ELSE IF dbj /\ ~pbj THEN "lose"
                ELSE IF pv > dv THEN "win"
                ELSE IF pv < dv THEN "lose"
                ELSE "push"
    IN  [s EXCEPT !.results = [uid \in DOMAIN s.players |-> res(uid)] @@ s.results,
                  !.finished = TRUE]

\* the skip loop with `val >= 21`: a seat that holds 21 is passed over too
RECURSIVE skip_busted_or_21(_, _)
skip_busted_or_21(s, i) ==
    IF i < Len(s.order) /\ hand_value(hand_of(s, s.order[i + 1]))[1] >= 21
    THEN skip_busted_or_21(s, i + 1)
    ELSE i

\* the skip loop of advance_turn: first index >= i whose hand is not bust
RECURSIVE skip_busted(_, _)
skip_busted(s, i) ==
    IF i < Len(s.order) /\ hand_value(hand_of(s, s.order[i + 1]))[1] > 21
    THEN skip_busted(s, i + 1)
    ELSE i

\* advance_turn that moves the cursor but never plays the dealer nor settles
advance_turn_no_settle(s) ==
    IF ~s.started \/ s.finished THEN {s}
    ELSE {[s EXCEPT !.turn_index = skip_busted(s, s.turn_index + 1)]}

\* advance_turn that lets the dealer play only when some seat is not bust
advance_turn_dealer_if_live(s) ==
    IF ~s.started \/ s.finished THEN {s}
    ELSE LET t == [s EXCEPT !.turn_index = skip_busted(s, s.turn_index + 1)]
         IN  IF t.turn_index >= Len(t.order)
             THEN IF \A uid \in DOMAIN t.players : hand_value(t.players[uid])[1] > 21
                  THEN {settle_all(t)}
                  ELSE {settle_all(d) : d \in table_dealer_play(t)}
             ELSE {t}

\* the set of sessions advance_turn() can end in
advance_turn(s) ==
    IF ~s.started \/ s.finished THEN {s}
    ELSE LET t == [s EXCEPT !.turn_index = skip_busted(s, s.turn_index + 1)]
         IN  IF t.turn_index >= Len(t.order)
             THEN {settle_all(d) : d \in table_dealer_play(t)}
             ELSE {t}

\* player_hit that checks the caller is seated, not that it is their turn
player_hit_any_seat(s, user_id) ==
    IF s.finished \/ ~s.started THEN {s}
    ELSE IF user_id \notin DOMAIN s.players THEN {s}
    ELSE UNION {LET t == [s EXCEPT !.players[user_id] = Append(@, d[1]), !.deck = d[2]]
                IN  IF hand_value(t.players[user_id])[1] > 21 THEN advance_turn(t) ELSE {t}
                : d \in draw(s.deck)}

\* player_hit that leaves the turn with a seat that went bust
player_hit_no_advance(s, user_id) ==
    IF s.finished \/ ~s.started THEN {s}
    ELSE IF current_player_id(s) # user_id THEN {s}
    ELSE {[s EXCEPT !.players[user_id] = Append(@, d[1]), !.deck = d[2]] : d \in draw(s.deck)}

player_hit(s, user_id) ==
    IF s.finished \/ ~s.started THEN {s}
    ELSE IF current_player_id(s) # user_id THEN {s}
    ELSE UNION {LET t == [s EXCEPT !.players[user_id] = Append(@, d[1]), !.deck = d[2]]
                IN  IF hand_value(t.players[user_id])[1] > 21 THEN advance_turn(t) ELSE {t}
                : d \in draw(s.deck)}

\* player_stand that takes a card before it ends the turn, as player_double does
player_stand_draws(s, user_id) ==
    IF s.finished \/ ~s.started THEN {s}
    ELSE IF current_player_id(s) # user_id THEN {s}
    ELSE UNION {advance_turn([s EXCEPT !.players[user_id] = Append(@, d[1]), !.deck = d[2]])
                : d \in draw(s.deck)}

player_stand(s, user_id) ==
    IF s.finished \/ ~s.started THEN {s}
    ELSE IF current_player_id(s) # user_id THEN {s}
    ELSE advance_turn(s)

\* player_double that ends the turn only when the hand is not bust
player_double_if_not_bust(s, user_id) ==
    IF s.finished \/ ~s.started THEN {s}
    ELSE IF current_player_id(s) # user_id THEN {s}
    ELSE UNION {LET t == [s EXCEPT !.players[user_id] = Append(@, d[1]), !.deck = d[2]]
                IN  IF hand_value(t.players[user_id])[1] <= 21 THEN advance_turn(t) ELSE {t}
                : d \in draw(s.deck)}

player_double(s, user_id) ==
    IF s.finished \/ ~s.started THEN {s}
    ELSE IF current_player_id(s) # user_id THEN {s}
    ELSE UNION {advance_turn([s EXCEPT !.players[user_id] = Append(@, d[1]), !.deck = d[2]])
                : d \in draw(s.deck)}

----------------------------------------------------------------------------
(* Table requests: the buttons of BlackjackTableLobby and BlackjackTableGame *)
(* and direct calls of the session's player_* methods.  /blackjack_table     *)
(* gives a lobby view on the unfinished table of the channel to whoever asks *)
(* and a lobby view never disables its buttons, so a lobby button can be     *)
(* pressed in every state.  The game view exists once start_btn succeeded;   *)
(* its buttons can be pressed while its last _refresh left them enabled.     *)

Response(op, status) == [op |-> op, status |-> status]

\* BlackjackTableGame._refresh: child.disabled for every button
game_buttons(s) ==
    IF s.finished \/ current_player_id(s) = None THEN "disabled" ELSE "enabled"

join_btn(u) ==
    /\ Len(table.order) + 1 \in SeatNumbers \/ ~add_player(table, u)[1]
    /\ IF table.finished
       THEN /\ last' = Response("join_btn", "Table is finished.")
            /\ UNCHANGED table
       ELSE LET r == add_player(table, u)
            IN  IF ~r[1]
                THEN /\ last' = Response("join_btn", "You're already seated or the game started.")
                     /\ UNCHANGED table
                ELSE /\ table' = r[2]
                     /\ last' = Response("join_btn", "ok")
    /\ UNCHANGED game_view

leave_btn(u) ==
    /\ IF u = table.host_id
       THEN /\ last' = Response("leave_btn", "Host cannot leave. Use Cancel.")
            /\ UNCHANGED table
       ELSE LET r == remove_player(table, u)
            IN  IF ~r[1]
                THEN /\ last' = Response("leave_btn", "You're not seated or game started.")
                     /\ UNCHANGED table
                ELSE /\ table' = r[2]
                     /\ last' = Response("leave_btn", "ok")
    /\ UNCHANGED game_view

start_btn(u) ==
    IF u # table.host_id
    THEN /\ last' = Response("start_btn", "Only the host can start.")
         /\ UNCHANGED <<table, game_view>>
    ELSE \E r \in table_start(table) :
           IF ~r[1]
           THEN /\ last' = Response("start_btn", "Need at least one player to start.")
                /\ UNCHANGED <<table, game_view>>
           ELSE /\ table' = r[2]
                /\ game_view' = game_buttons(r[2])
                /\ last' = Response("start_btn", "ok")

cancel_btn(u) ==
    /\ IF u # table.host_id
       THEN /\ last' = Response("cancel_btn", "Only the host can cancel.")
            /\ UNCHANGED table
       ELSE /\ table' = [table EXCEPT !.finished = TRUE]
            /\ last' = Response("cancel_btn", "Table canceled.")
    /\ UNCHANGED game_view

\* the three buttons of BlackjackTableGame share their checks; outcomes is
\* the set of sessions the button's session method can leave
game_btn(op, u, outcomes) ==
    /\ game_view = "enabled"
    /\ IF table.finished
       THEN /\ last' = Response(op, "Game finished.")
            /\ UNCHANGED <<table, game_view>>
       ELSE IF u # current_player_id(table)
       THEN /\ last' = Response(op, "Not your turn.")
            /\ UNCHANGED <<table, game_view>>
       ELSE \E t \in outcomes :
              /\ table' = t
              /\ game_view' = game_buttons(t)
              /\ last' = Response(op, "ok")

game_hit_btn(u) == game_btn("game_hit_btn", u, player_hit(table, u))

game_stand_btn(u) == game_btn("game_stand_btn", u, player_stand(table, u))

game_double_btn(u) == game_btn("game_double_btn", u, player_double(table, u))

\* a direct call of session.player_hit / player_stand / player_double
call_player_hit(u) ==
    /\ \E t \in player_hit(table, u) : table' = t
    /\ last' = Response("player_hit", "None")
    /\ UNCHANGED game_view

call_player_stand(u) ==
    /\ \E t \in player_stand(table, u) : table' = t
    /\ last' = Response("player_stand", "None")
    /\ UNCHANGED game_view

call_player_double(u) ==
    /\ \E t \in player_double(table, u) : table' = t
    /\ last' = Response("player_double", "None")
    /\ UNCHANGED game_view

\* the specifications of one session leave the cog out
cog_unused == cog = <<>> /\ heap = <<>> /\ views = <<>> /\ tasks = <<>>

Host == 1

\* the state after /blackjack_table created the table and its lobby view
Init ==
    /\ deck_ranks = RANKS
    /\ table = TableSession(Host)
    /\ game_view = "none"
    /\ last = Response("blackjack_table", "ok")
    /\ solo = <<>>
    /\ ui_views = <<>>
    /\ settle_calls = 0
    /\ dealer_play_calls = 0
    /\ dealer_pc = "idle"
    /\ cog_unused

Next ==
    /\ UNCHANGED solo_vars
    /\ UNCHANGED <<cog_vars, deck_ranks>>
    /\ \E u \in Users :
        \/ join_btn(u)
        \/ leave_btn(u)
        \/ start_btn(u)
        \/ cancel_btn(u)
        \/ game_hit_btn(u)
        \/ game_stand_btn(u)
        \/ game_double_btn(u)
        \/ call_player_hit(u)
        \/ call_player_stand(u)
        \/ call_player_double(u)

Spec == Init /\ [][Next]_vars

----------------------------------------------------------------------------
(* BlackjackSession *)

BlackjackSession(player_id) ==
    [player_id |-> player_id,
     deck      |-> new_deck,
     player    |-> <<>>,
     dealer    |-> <<>>,
     finished  |-> FALSE,
     result    |-> "none"]

\* the set of sessions start() can end in
session_start(s) ==
    UNION {{[s EXCEPT !.player = p[1], !.dealer = d[1], !.deck = d[2]]
            : d \in draw_two(p[2])} : p \in draw_two(s.deck)}

\* the set of sessions hit(target) can end in
session_hit(s, target) ==
    IF target = "player"
    THEN {[s EXCEPT !.player = Append(s.player, d[1]), !.deck = d[2]] : d \in draw(s.deck)}
    ELSE {[s EXCEPT !.dealer = Append(s.dealer, d[1]), !.deck = d[2]] : d \in draw(s.deck)}

\* dealer_play that takes a card before it looks at the total
session_dealer_play_card_first(s) == session_hit(s, "dealer")

\* the set of sessions dealer_play() can end in
RECURSIVE session_dealer_play(_)
session_dealer_play(s) ==
    IF hand_value(s.dealer)[1] < 17
    THEN UNION {session_dealer_play(t) : t \in session_hit(s, "dealer")}
    ELSE {s}

\* settle that records the result and leaves the finished flag alone
settle_result_only(s) ==
    LET pv  == hand_value(s.player)[1]
        pbj == hand_value(s.player)[2]
        dv  == hand_value(s.dealer)[1]
        dbj == hand_value(s.dealer)[2]
        result == IF pv > 21 THEN "lose"
                  ELSE IF dv > 21 THEN "win"
                  ELSE IF pbj /\ ~dbj THEN "win"
                  ELSE IF dbj /\ ~pbj THEN "lose"
                  ELSE IF pv > dv THEN "win"
                  ELSE IF pv < dv THEN "lose"
                  ELSE "push"
    IN  [s EXCEPT !.result = result]

\* settle that knows totals only: a blackjack ties with any other 21
settle_totals_only(s) ==
    LET pv  == hand_value(s.player)[1]
        dv  == hand_value(s.dealer)[1]
        result == IF pv > 21 THEN "lose"
                  ELSE IF dv > 21 THEN "win"
                  ELSE IF pv > dv THEN "win"
                  ELSE IF pv < dv THEN "lose"
                  ELSE "push"
    IN  [s EXCEPT !.result = result, !.finished = TRUE]

settle(s) ==
    LET pv  == hand_value(s.player)[1]
        pbj == hand_value(s.player)[2]
        dv  == hand_value(s.dealer)[1]
        dbj == hand_value(s.dealer)[2]
        result == IF pv > 21 THEN "lose"
                  ELSE IF dv > 21 THEN "win"
                  ELSE IF pbj /\ ~dbj THEN "win"
                  ELSE IF dbj /\ ~pbj THEN "lose"
                  ELSE IF pv > dv THEN "win"
                  ELSE IF pv < dv THEN "lose"
                  ELSE "push"
    IN  [s EXCEPT !.result = result, !.finished = TRUE]

----------------------------------------------------------------------------
(* Solo requests: /blackjack and the buttons of BlackjackUI.  A button of a *)
(* view can be pressed while the view's last _refresh left it enabled; a    *)
(* view that was never refreshed still has its buttons enabled.             *)

\* BlackjackUI._refresh of view v: child.disabled = self.session.finished
ui_refresh(v, s) == [ui_views EXCEPT ![v].disabled = s.finished]

\* /blackjack by the participant while the session is unfinished: the session
\* is reused and a new view is attached to it
blackjack(u) ==
    /\ u = solo.player_id
    /\ ~solo.finished
    /\ Len(ui_views) < MaxViews
    /\ ui_views' = Append(ui_views, [disabled |-> FALSE])
    /\ last' = Response("blackjack", "reused")
    /\ UNCHANGED <<solo, settle_calls, dealer_play_calls, dealer_pc>>

\* hit_btn that ends the game at 21 as well (pv >= 21 where the code has pv > 21)
ui_hit_btn_stand_at_21(v, u) ==
    /\ ~ui_views[v].disabled
    /\ IF u # solo.player_id
       THEN /\ last' = Response("ui_hit_btn", "This isn't your game.")
            /\ UNCHANGED solo_vars
       ELSE \E h \in session_hit(solo, "player") :
              IF hand_value(h.player)[1] >= 21
              THEN \E d \in session_dealer_play(h) :
                     /\ solo' = settle(d)
                     /\ settle_calls' = settle_calls + 1
                     /\ dealer_play_calls' = dealer_play_calls + 1
                     /\ ui_views' = ui_refresh(v, settle(d))
                     /\ last' = Response("ui_hit_btn", "ok")
                     /\ UNCHANGED dealer_pc
              ELSE /\ solo' = h
                   /\ ui_views' = ui_refresh(v, h)
                   /\ last' = Response("ui_hit_btn", "ok")
                   /\ UNCHANGED <<settle_calls, dealer_play_calls, dealer_pc>>

\* hit_btn that settles a bust without dealer_play, as double_btn does
ui_hit_btn_no_dealer_play(v, u) ==
    /\ ~ui_views[v].disabled
    /\ IF u # solo.player_id
       THEN /\ last' = Response("ui_hit_btn", "This isn't your game.")
            /\ UNCHANGED solo_vars
       ELSE \E h \in session_hit(solo, "player") :
              IF hand_value(h.player)[1] > 21
              THEN /\ solo' = settle(h)
                   /\ settle_calls' = settle_calls + 1
                   /\ ui_views' = ui_refresh(v, settle(h))
                   /\ last' = Response("ui_hit_btn", "ok")
                   /\ UNCHANGED <<dealer_play_calls, dealer_pc>>
              ELSE /\ solo' = h
                   /\ ui_views' = ui_refresh(v, h)
                   /\ last' = Response("ui_hit_btn", "ok")
                   /\ UNCHANGED <<settle_calls, dealer_play_calls, dealer_pc>>

ui_hit_btn(v, u) ==
    /\ ~ui_views[v].disabled
    /\ IF u # solo.player_id
       THEN /\ last' = Response("ui_hit_btn", "This isn't your game.")
            /\ UNCHANGED solo_vars
       ELSE \E h \in session_hit(solo, "player") :
              IF hand_value(h.player)[1] > 21
              THEN \E d \in session_dealer_play(h) :
                     /\ solo' = settle(d)
                     /\ settle_calls' = settle_calls + 1
                     /\ dealer_play_calls' = dealer_play_calls + 1
                     /\ ui_views' = ui_refresh(v, settle(d))
                     /\ last' = Response("ui_hit_btn", "ok")
                     /\ UNCHANGED dealer_pc
              ELSE /\ solo' = h
                   /\ ui_views' = ui_refresh(v, h)
                   /\ last' = Response("ui_hit_btn", "ok")
                   /\ UNCHANGED <<settle_calls, dealer_play_calls, dealer_pc>>

\* stand_btn without the check of interaction.user.id
ui_stand_btn_anyone(v, u) ==
    /\ ~ui_views[v].disabled
    /\ \E d \in session_dealer_play(solo) :
         /\ solo' = settle(d)
         /\ settle_calls' = settle_calls + 1
         /\ dealer_play_calls' = dealer_play_calls + 1
         /\ ui_views' = ui_refresh(v, settle(d))
         /\ last' = Response("ui_stand_btn", "ok")
         /\ UNCHANGED dealer_pc

ui_stand_btn(v, u) ==
    /\ ~ui_views[v].disabled
    /\ IF u # solo.player_id
       THEN /\ last' = Response("ui_stand_btn", "This isn't your game.")
            /\ UNCHANGED solo_vars
       ELSE \E d \in session_dealer_play(solo) :
              /\ solo' = settle(d)
              /\ settle_calls' = settle_calls + 1
              /\ dealer_play_calls' = dealer_play_calls + 1
              /\ ui_views' = ui_refresh(v, settle(d))
              /\ last' = Response("ui_stand_btn", "ok")
              /\ UNCHANGED dealer_pc

\* double_btn that lets the dealer play after a bust too
ui_double_btn_dealer_always(v, u) ==
    /\ ~ui_views[v].disabled
    /\ IF u # solo.player_id
       THEN /\ last' = Response("ui_double_btn", "This isn't your game.")
            /\ UNCHANGED solo_vars
       ELSE \E h \in session_hit(solo, "player") :
            \E d \in session_dealer_play(h) :
              /\ solo' = settle(d)
              /\ settle_calls' = settle_calls + 1
              /\ dealer_play_calls' = dealer_play_calls + 1
              /\ ui_views' = ui_refresh(v, settle(d))
              /\ last' = Response("ui_double_btn", "ok")
              /\ UNCHANGED dealer_pc

ui_double_btn(v, u) ==
    /\ ~ui_views[v].disabled
    /\ IF u # solo.player_id
       THEN /\ last' = Response("ui_double_btn", "This isn't your game.")
            /\ UNCHANGED solo_vars
       ELSE \E h \in session_hit(solo, "player") :
            \E d \in (IF hand_value(h.player)[1] <= 21 THEN session_dealer_play(h) ELSE {h}) :
              /\ solo' = settle(d)
              /\ settle_calls' = settle_calls + 1
              /\ dealer_play_calls' =
                    IF hand_value(h.player)[1] <= 21 THEN dealer_play_calls + 1
                    ELSE dealer_play_calls
              /\ ui_views' = ui_refresh(v, settle(d))
              /\ last' = Response("ui_double_btn", "ok")
              /\ UNCHANGED dealer_pc

Participant == 1

\* the state after /blackjack made the session (_make_session) and its view
SoloInit ==
    /\ deck_ranks = RANKS
    /\ solo \in session_start(BlackjackSession(Participant))
    /\ ui_views = <<[disabled |-> FALSE]>>
    /\ settle_calls = 0
    /\ dealer_play_calls = 0
    /\ dealer_pc = "idle"
    /\ cog_unused
    /\ last = Response("blackjack", "ok")
    /\ table = <<>>
    /\ game_view = "none"

SoloNext ==
    /\ UNCHANGED table_vars
    /\ UNCHANGED <<cog_vars, deck_ranks>>
    /\ \E u \in Users :
        \/ blackjack(u)
        \/ \E v \in 1..Len(ui_views) :
            \/ ui_hit_btn(v, u)
            \/ ui_stand_btn(v, u)
            \/ ui_double_btn(v, u)

SoloSpec == SoloInit /\ [][SoloNext]_vars

----------------------------------------------------------------------------
(* settle() as a function of the two hands: every pair of hands it can be  *)
(* called with (the dealer has played, or the player is bust).             *)

EvalRanks == {RankOrder[i] : i \in 1..NumEvalRanks}

EvalHands ==
    UNION {[1..n -> {<<r, s>> : r \in EvalRanks, s \in SUITS}] : n \in 2..MaxEvalLen}

EvalInit ==
    /\ deck_ranks = RANKS
    /\ \E p \in EvalHands, d \in EvalHands :
         /\ hand_value(d)[1] >= 17 \/ hand_value(p)[1] > 21
         /\ solo = [BlackjackSession(Participant) EXCEPT !.player = p, !.dealer = d]
    /\ ui_views = <<>>
    /\ settle_calls = 0
    /\ dealer_play_calls = 0
    /\ dealer_pc = "idle"
    /\ cog_unused
    /\ last = Response("blackjack", "ok")
    /\ table = <<>>
    /\ game_view = "none"

call_settle ==
    /\ ~solo.finished
    /\ solo' = settle(solo)
    /\ settle_calls' = settle_calls + 1
    /\ last' = Response("settle", "None")
    /\ UNCHANGED <<ui_views, table_vars, dealer_play_calls, dealer_pc>>

EvalNext == UNCHANGED <<cog_vars, deck_ranks>> /\ call_settle

EvalSpec == EvalInit /\ [][EvalNext]_vars

----------------------------------------------------------------------------
(* dealer_play() step by step: the while loop of BlackjackSession.dealer_play *)
(* (the loop of BlackjackTableSession.dealer_play is the same code), from  *)
(* every two-card dealer hand start() can deal out of a full shoe and      *)
(* every state of the model's shoe, and called again after it returned.    *)

MaxDealerCalls == 2   \* calls of dealer_play on one session in DealerSpec

AllRanks == {RankOrder[i] : i \in 1..Len(RankOrder)}

\* the hands [self.draw(), self.draw()] of start()
DealtPairs == [1..2 -> {<<r, s>> : r \in AllRanks, s \in SUITS}]

DealerInit ==
    /\ deck_ranks = RANKS
    /\ \E d \in DealtPairs, k \in SubBag(new_deck) :
         solo = [BlackjackSession(Participant) EXCEPT !.dealer = d, !.deck = k]
    /\ ui_views = <<>>
    /\ settle_calls = 0
    /\ dealer_play_calls = 0
    /\ dealer_pc = "idle"
    /\ cog_unused
    /\ last = Response("blackjack", "ok")
    /\ table = <<>>
    /\ game_view = "none"

\* self.dealer_play() is called
call_dealer_play ==
    /\ dealer_pc = "idle"
    /\ dealer_play_calls < MaxDealerCalls
    /\ dealer_pc' = "loop"
    /\ last' = Response("dealer_play", "called")
    /\ UNCHANGED <<solo, ui_views, settle_calls, dealer_play_calls, table_vars, cog_vars, deck_ranks>>

\* dealer_draw that takes a card at 17 as well
dealer_play_draw_at_17 ==
    /\ dealer_pc = "loop"
    /\ hand_value(solo.dealer)[1] < 18
    /\ solo' \in session_hit(solo, "dealer")
    /\ UNCHANGED <<ui_views, settle_calls, dealer_play_calls, dealer_pc, last, table_vars, cog_vars, deck_ranks>>

\* one pass of the loop with value < 17: self.hit("dealer")
dealer_play_draw ==
    /\ dealer_pc = "loop"
    /\ hand_value(solo.dealer)[1] < 17
    /\ solo' \in session_hit(solo, "dealer")
    /\ UNCHANGED <<ui_views, settle_calls, dealer_play_calls, dealer_pc, last, table_vars, cog_vars, deck_ranks>>

\* one pass of the loop with value >= 17: break, and dealer_play returns
dealer_play_break ==
    /\ dealer_pc = "loop"
    /\ ~(hand_value(solo.dealer)[1] < 17)
    /\ dealer_pc' = "idle"
    /\ dealer_play_calls' = dealer_play_calls + 1
    /\ last' = Response("dealer_play", "None")
    /\ UNCHANGED <<solo, ui_views, settle_calls, table_vars, cog_vars, deck_ranks>>

DealerNext == call_dealer_play \/ dealer_play_draw \/ dealer_play_break

\* the interpreter runs the loop on: a pass that can be made is made
DealerSpec ==
    /\ DealerInit
    /\ [][DealerNext]_vars
    /\ WF_vars(dealer_play_draw)
    /\ WF_vars(dealer_play_break)

----------------------------------------------------------------------------
(* hand_value() as a function of the hand: the player's hand grows a card  *)
(* at a time, each card of any rank a full shoe holds, and is evaluated    *)
(* after each card as hit_btn does (hit("player"), then hand_value).       *)

MaxHandLen == 3   \* longest hand given to hand_value in HandSpec

HandInit ==
    /\ deck_ranks = RANKS
    /\ solo = BlackjackSession(Participant)
    /\ last = Response("hand_value", hand_value(<<>>))
    /\ ui_views = <<>>
    /\ settle_calls = 0
    /\ dealer_play_calls = 0
    /\ dealer_pc = "idle"
    /\ cog_unused
    /\ table = <<>>
    /\ game_view = "none"

\* self.player.append(card); hand_value(self.player)
append_and_value ==
    /\ Len(solo.player) < MaxHandLen
    /\ \E r \in AllRanks, s \in SUITS :
         /\ solo' = [solo EXCEPT !.player = Append(@, <<r, s>>)]
         /\ last' = Response("hand_value", hand_value(Append(solo.player, <<r, s>>)))
    /\ UNCHANGED <<ui_views, settle_calls, dealer_play_calls, dealer_pc, table_vars>>

HandNext == UNCHANGED <<cog_vars, deck_ranks>> /\ append_and_value

HandSpec == HandInit /\ [][HandNext]_vars

----------------------------------------------------------------------------
(* draw() on the shoe of the program, two decks of thirteen ranks in four  *)
(* suits: the draws from the shoes that hold DrawDepth cards or fewer,     *)
(* through the refill, and the first DrawDepth draws after the refill.     *)

DrawDepth == 2   \* cards in the shoes DrawSpec starts from

FullSuits == {"S", "H", "D", "C"}

FullCards == {<<r, s>> : r \in AllRanks, s \in FullSuits}

full_deck == SetToBag(FullCards) (+) SetToBag(FullCards)

RECURSIVE BagOfSeq(_)
BagOfSeq(cs) == IF cs = <<>> THEN EmptyBag ELSE SetToBag({Head(cs)}) (+) BagOfSeq(Tail(cs))

\* the shoes of n cards or fewer: part of the two decks
SmallShoes(n) ==
    {b \in {BagOfSeq(cs) : cs \in UNION {[1..k -> FullCards] : k \in 0..n}} :
        b \sqsubseteq full_deck}

DrawInit ==
    /\ deck_ranks = RANKS
    /\ \E d \in SmallShoes(DrawDepth) : solo = [BlackjackSession(Participant) EXCEPT !.deck = d]
    /\ last = Response("blackjack", "ok")
    /\ ui_views = <<>>
    /\ settle_calls = 0
    /\ dealer_play_calls = 0
    /\ dealer_pc = "idle"
    /\ cog_unused
    /\ table = <<>>
    /\ game_view = "none"

\* self.draw()
call_draw ==
    /\ \/ BagCardinality(solo.deck) <= DrawDepth
       \/ BagCardinality(solo.deck) > BagCardinality(full_deck) - DrawDepth
    /\ \E r \in draw_from(full_deck, solo.deck) :
         /\ solo' = [solo EXCEPT !.deck = r[2]]
         /\ last' = Response("draw", r[1])
    /\ UNCHANGED <<ui_views, settle_calls, dealer_play_calls, dealer_pc, table_vars>>

DrawNext == UNCHANGED <<cog_vars, deck_ranks>> /\ call_draw

DrawSpec == DrawInit /\ [][DrawNext]_vars

----------------------------------------------------------------------------
(* The solo session with a shoe that outlasts a game.  Every card of      *)
(* ShoeRanks counts 9 or more: a deal leaves both hands at 18 or more, so *)
(* the dealer never draws and a Hit or a Double ends the game; a game     *)
(* takes five of the six cards of the two decks at most (in the code: a   *)
(* game cannot take the 104 cards of its shoe).                           *)

ShoeRanks == {"K", "Q", "9"}

\* the state after /blackjack made the session (_make_session) and its view
ShoeInit ==
    /\ deck_ranks = ShoeRanks
    /\ solo \in session_start(BlackjackSession(Participant))
    /\ ui_views = <<[disabled |-> FALSE]>>
    /\ settle_calls = 0
    /\ dealer_play_calls = 0
    /\ dealer_pc = "idle"
    /\ cog_unused
    /\ last = Response("blackjack", "ok")
    /\ table = <<>>
    /\ game_view = "none"

ShoeSpec == ShoeInit /\ [][SoloNext]_vars

----------------------------------------------------------------------------
(* Either kind of session, with the requests of its views and, on the solo *)
(* session, dealer_play() called directly between two requests.            *)

SessionInit == Init \/ SoloInit

SessionNext ==
    \/ table # <<>> /\ Next
    \/ solo # <<>> /\ dealer_pc = "idle" /\ SoloNext
    \/ solo # <<>> /\ DealerNext

SessionSpec == SessionInit /\ [][SessionNext]_vars

----------------------------------------------------------------------------
(* The cog: the Blackjack object with its two registries, the session      *)
(* objects the registries and the views refer to, and the views.  A dict   *)
(* is a function that gives None for a key it does not hold; a reference   *)
(* to a session object is its index in heap.  The registries do not read   *)
(* cards, so of the shuffles of a deal at most MaxShuffles are followed.    *)

MaxHeap == 2

MaxShuffles == 1

MaxTasks == 1

\* the guild, its members who use the bot and its channels
Guild == 1

Members == {1, 2}

Channels == {1, 2}

\* the views the bot listens to at a time (a third one multiplies the states
\* by twenty)
ViewIds == {1, 2}

\* the seats of a table of the cog (SeatNumbers multiplies the states of every
\* table object by forty)
CogSeatNumbers == {1}

\* the specifications of the cog leave the single-session variables out
session_unused ==
    /\ table = <<>>
    /\ game_view = "none"
    /\ solo = <<>>
    /\ ui_views = <<>>
    /\ settle_calls = 0
    /\ dealer_play_calls = 0
    /\ dealer_pc = "idle"

session_vars == <<table, game_view, solo, ui_views, settle_calls, dealer_play_calls, dealer_pc>>

\* at most n elements of S
RECURSIVE Pick(_, _)
Pick(S, n) ==
    IF n = 0 \/ S = {} THEN {}
    ELSE LET x == CHOOSE y \in S : TRUE IN {x} \cup Pick(S \ {x}, n - 1)

Shuffles(S) == Pick(S, MaxShuffles)

\* of the sessions a button can leave: at most MaxShuffles of those that ended
\* the game and at most MaxShuffles of those that did not
Outcomes(S) ==
    Pick({s \in S : s.finished}, MaxShuffles) \cup Pick({s \in S : ~s.finished}, MaxShuffles)

\* Blackjack._key
cog_key(guild_id, user_id) == <<guild_id, user_id>>

SoloKeys == {cog_key(Guild, u) : u \in Members}

TableKeys == {<<Guild, c>> : c \in Channels}

\* Blackjack.__init__: both dicts empty
Blackjack == [sessions       |-> [k \in SoloKeys |-> None],
              table_sessions |-> [k \in TableKeys |-> None]]

\* a response of the cog: the request, the answer, the member who made the
\* request and the view it came from (for a command, the view it sent)
CogResponse(op, status, user, view) ==
    [op |-> op, status |-> status, user |-> user, view |-> view]

\* BlackjackUI(cog, session, invoker): buttons enabled until a _refresh
BlackjackUI(ref) == [kind |-> "ui", session |-> ref, disabled |-> FALSE]

\* /blackjack that never reuses: every call makes a session
reuse_never(h, existing) == FALSE

\* /blackjack reuses a session that is registered and finished or not
reuse_any(h, existing) == existing # None

\* /blackjack: existing and not existing.finished
reuse(h, existing) == existing # None /\ ~h[existing].finished

\* _make_session: the pairs <<registry, heap>> it can leave
make_session(sessions, h, guild_id, user_id) ==
    {<<[sessions EXCEPT ![cog_key(guild_id, user_id)] = Len(h) + 1], Append(h, sess)>>
        : sess \in Shuffles(session_start(BlackjackSession(user_id)))}

\* pretty_cards: the cards in order, a dash for an empty hand
pretty_cards(cards) == IF cards = <<>> THEN <<"-">> ELSE cards

\* a response that carries the embed the handler sent or edited in
Rendered(response, embed) == response @@ [embed |-> embed]

\* the embed of /blackjack (lines 231-238): the dealer line is always `?` and
\* the first dealer card
blackjack_embed(s) ==
    [player          |-> s.player_id,
     player_val      |-> hand_value(s.player)[1],
     player_bj       |-> hand_value(s.player)[2],
     player_cards    |-> pretty_cards(s.player),
     dealer_total    |-> {},
     dealer_bj       |-> FALSE,
     dealer_cards    |-> pretty_cards(IF s.dealer # <<>> THEN <<s.dealer[1]>> ELSE <<>>),
     outcome         |-> "",
     color           |-> "blurple"]

\* BlackjackUI._refresh that prints the dealer's total whatever finished is
ui_embed_dealer_total(s) ==
    [player          |-> s.player_id,
     player_val      |-> hand_value(s.player)[1],
     player_bj       |-> hand_value(s.player)[2],
     player_cards    |-> pretty_cards(s.player),
     dealer_total    |-> {hand_value(s.dealer)[1]},
     dealer_bj       |-> hand_value(s.dealer)[2] /\ s.finished,
     dealer_cards    |-> pretty_cards(IF s.finished THEN s.dealer
                                      ELSE IF s.dealer # <<>> THEN <<s.dealer[1]>> ELSE <<>>),
     outcome         |-> IF s.finished /\ s.result # "none" THEN s.result ELSE "",
     color           |-> IF s.finished /\ s.result = "win" THEN "green"
                         ELSE IF s.finished /\ s.result = "lose" THEN "red"
                         ELSE "blurple"]

\* the embed BlackjackUI._refresh builds (lines 119-136); dealer_total is the
\* set of totals printed on the dealer line: none where the code prints `?`
ui_embed(s) ==
    [player          |-> s.player_id,
     player_val      |-> hand_value(s.player)[1],
     player_bj       |-> hand_value(s.player)[2],
     player_cards    |-> pretty_cards(s.player),
     dealer_total    |-> IF s.finished THEN {hand_value(s.dealer)[1]} ELSE {},
     dealer_bj       |-> hand_value(s.dealer)[2] /\ s.finished,
     dealer_cards    |-> pretty_cards(IF s.finished THEN s.dealer
                                      ELSE IF s.dealer # <<>> THEN <<s.dealer[1]>> ELSE <<>>),
     outcome         |-> IF s.finished /\ s.result # "none" THEN s.result ELSE "",
     color           |-> IF s.finished /\ s.result = "win" THEN "green"
                         ELSE IF s.finished /\ s.result = "lose" THEN "red"
                         ELSE "blurple"]

\* the embed BlackjackTableGame._refresh builds (lines 533-562)
game_embed(s) ==
    [players      |-> [i \in 1..Len(s.order) |->
                         LET uid  == s.order[i]
                             hand == hand_of(s, uid)
                         IN  [member |-> uid,
                              val    |-> hand_value(hand)[1],
                              bj     |-> hand_value(hand)[2],
                              marker |-> current_player_id(s) = uid /\ ~s.finished,
                              cards  |-> pretty_cards(hand)]],
     dealer_total |-> IF s.finished THEN {hand_value(s.dealer)[1]} ELSE {},
     dealer_bj    |-> hand_value(s.dealer)[2] /\ s.finished,
     dealer_cards |-> pretty_cards(IF s.finished THEN s.dealer
                                   ELSE IF s.dealer # <<>> THEN <<s.dealer[1]>> ELSE <<>>),
     summary      |-> IF s.finished
                      THEN [i \in 1..Len(s.order) |->
                              <<s.order[i], IF s.order[i] \in DOMAIN s.results
                                            THEN s.results[s.order[i]] ELSE "">>]
                      ELSE <<>>,
     color        |-> IF s.finished THEN "green" ELSE "blurple"]

\* /blackjack by member u in the guild
slash_blackjack(u) ==
    LET key      == cog_key(Guild, u)
        existing == cog.sessions[key]
    IN  /\ Len(views) + 1 \in ViewIds
        /\ IF reuse(heap, existing)
           THEN /\ views' = Append(views, BlackjackUI(existing))
                /\ last' = Rendered(CogResponse("blackjack", "reused", u, Len(views) + 1),
                                     blackjack_embed(heap[existing]))
                /\ UNCHANGED <<cog, heap>>
           ELSE /\ Len(heap) < MaxHeap
                /\ \E m \in make_session(cog.sessions, heap, Guild, u) :
                     /\ cog' = [cog EXCEPT !.sessions = m[1]]
                     /\ heap' = m[2]
                     /\ views' = Append(views, BlackjackUI(Len(heap) + 1))
                     /\ last' = Rendered(CogResponse("blackjack", "made", u, Len(views) + 1),
                                          blackjack_embed(m[2][Len(heap) + 1]))
        /\ UNCHANGED tasks
        /\ UNCHANGED <<session_vars, deck_ranks>>

\* the sessions hit_btn of BlackjackUI can leave
hit_btn_on(s) ==
    UNION {IF hand_value(h.player)[1] > 21
           THEN {settle(d) : d \in session_dealer_play(h)}
           ELSE {h} : h \in session_hit(s, "player")}

\* the sessions stand_btn of BlackjackUI can leave
stand_btn_on(s) == {settle(d) : d \in session_dealer_play(s)}

\* the sessions double_btn of BlackjackUI can leave
double_btn_on(s) ==
    UNION {IF hand_value(h.player)[1] <= 21
           THEN {settle(d) : d \in session_dealer_play(h)}
           ELSE {settle(h)} : h \in session_hit(s, "player")}

\* a button of BlackjackUI that calls _remove_session once the game is settled
cog_ui_btn_evict(op, v, u, outcomes) ==
    LET ref == views[v].session
    IN  /\ views[v].kind = "ui"
        /\ ~views[v].disabled
        /\ IF u # heap[ref].player_id
           THEN /\ last' = CogResponse(op, "This isn't your game.", u, v)
                /\ UNCHANGED <<heap, views, cog>>
           ELSE \E t \in Outcomes(outcomes) :
                  /\ heap' = [heap EXCEPT ![ref] = t]
                  /\ views' = [views EXCEPT ![v].disabled = t.finished]
                  /\ cog' = IF t.finished
                            THEN [cog EXCEPT !.sessions[cog_key(Guild, u)] = None]
                            ELSE cog
                  /\ last' = Rendered(CogResponse(op, "ok", u, v), ui_embed(t))
        /\ UNCHANGED tasks
        /\ UNCHANGED <<session_vars, deck_ranks>>

\* a button of the BlackjackUI view v pressed by member u
cog_ui_btn(op, v, u, outcomes) ==
    LET ref == views[v].session
    IN  /\ views[v].kind = "ui"
        /\ ~views[v].disabled
        /\ IF u # heap[ref].player_id
           THEN /\ last' = CogResponse(op, "This isn't your game.", u, v)
                /\ UNCHANGED <<heap, views>>
           ELSE \E t \in Outcomes(outcomes) :
                  /\ heap' = [heap EXCEPT ![ref] = t]
                  /\ views' = [views EXCEPT ![v].disabled = t.finished]
                  /\ last' = Rendered(CogResponse(op, "ok", u, v), ui_embed(t))
        /\ UNCHANGED <<cog, tasks>>
        /\ UNCHANGED <<session_vars, deck_ranks>>

cog_hit_btn(v, u) == cog_ui_btn("ui_hit_btn", v, u, hit_btn_on(heap[views[v].session]))

cog_stand_btn(v, u) == cog_ui_btn("ui_stand_btn", v, u, stand_btn_on(heap[views[v].session]))

cog_double_btn(v, u) == cog_ui_btn("ui_double_btn", v, u, double_btn_on(heap[views[v].session]))

\* BlackjackTableSession(guild_id, channel_id, host_id)
CogTableSession(guild_id, channel_id, host_id) ==
    [guild_id |-> guild_id, channel_id |-> channel_id] @@ TableSession(host_id)

\* BlackjackTableLobby(cog, session, host) on a message in channel c
BlackjackTableLobby(ref, c) ==
    [kind |-> "lobby", session |-> ref, channel |-> c, disabled |-> FALSE]

\* /blackjack_table: existing and not existing.finished
table_exists(h, existing) == existing # None /\ ~h[existing].finished

\* /blackjack_table by member u in channel c of the guild
slash_blackjack_table(c, u) ==
    LET key      == <<Guild, c>>
        existing == cog.table_sessions[key]
    IN  /\ Len(views) + 1 \in ViewIds
        /\ IF table_exists(heap, existing)
           THEN /\ views' = Append(views, BlackjackTableLobby(existing, c))
                /\ last' = CogResponse("blackjack_table", "A table already exists in this channel.", u, Len(views) + 1)
                /\ UNCHANGED <<cog, heap>>
           ELSE /\ Len(heap) < MaxHeap
                /\ heap' = Append(heap, CogTableSession(Guild, c, u))
                /\ cog' = [cog EXCEPT !.table_sessions[key] = Len(heap) + 1]
                /\ views' = Append(views, BlackjackTableLobby(Len(heap) + 1, c))
                /\ last' = CogResponse("blackjack_table", "made", u, Len(views) + 1)
        /\ UNCHANGED tasks
        /\ UNCHANGED <<session_vars, deck_ranks>>

\* Join on the lobby view v by member u
cog_join_btn(v, u) ==
    LET ref == views[v].session
        s   == heap[ref]
        r   == add_player(s, u)
    IN  /\ views[v].kind = "lobby"
        /\ Len(s.order) + 1 \in CogSeatNumbers \/ ~r[1]
        /\ IF s.finished
           THEN /\ last' = CogResponse("join_btn", "Table is finished.", u, v)
                /\ UNCHANGED heap
           ELSE IF ~r[1]
           THEN /\ last' = CogResponse("join_btn", "You're already seated or the game started.", u, v)
                /\ UNCHANGED heap
           ELSE /\ heap' = [heap EXCEPT ![ref] = r[2]]
                /\ last' = CogResponse("join_btn", "ok", u, v)
        /\ UNCHANGED <<cog, views, tasks>>
        /\ UNCHANGED <<session_vars, deck_ranks>>

\* Leave without the check of the host: the host leaves like anyone else
cog_leave_btn_host(v, u) ==
    LET ref == views[v].session
        s   == heap[ref]
        r   == remove_player(s, u)
    IN  /\ views[v].kind = "lobby"
        /\ IF ~r[1]
           THEN /\ last' = CogResponse("leave_btn", "You're not seated or game started.", u, v)
                /\ UNCHANGED heap
           ELSE /\ heap' = [heap EXCEPT ![ref] = r[2]]
                /\ last' = CogResponse("leave_btn", "ok", u, v)
        /\ UNCHANGED <<cog, views, tasks>>
        /\ UNCHANGED <<session_vars, deck_ranks>>

\* Leave on the lobby view v by member u
cog_leave_btn(v, u) ==
    LET ref == views[v].session
        s   == heap[ref]
        r   == remove_player(s, u)
    IN  /\ views[v].kind = "lobby"
        /\ IF u = s.host_id
           THEN /\ last' = CogResponse("leave_btn", "Host cannot leave. Use Cancel.", u, v)
                /\ UNCHANGED heap
           ELSE IF ~r[1]
           THEN /\ last' = CogResponse("leave_btn", "You're not seated or game started.", u, v)
                /\ UNCHANGED heap
           ELSE /\ heap' = [heap EXCEPT ![ref] = r[2]]
                /\ last' = CogResponse("leave_btn", "ok", u, v)
        /\ UNCHANGED <<cog, views, tasks>>
        /\ UNCHANGED <<session_vars, deck_ranks>>

\* Start on the lobby view v by member u: on success the message of the
\* lobby view shows a BlackjackTableGame view from then on
cog_start_btn(v, u) ==
    LET ref == views[v].session
        s   == heap[ref]
    IN  /\ views[v].kind = "lobby"
        /\ IF u # s.host_id
           THEN /\ last' = CogResponse("start_btn", "Only the host can start.", u, v)
                /\ UNCHANGED <<heap, views>>
           ELSE \E r \in Shuffles(table_start(s)) :
                  IF ~r[1]
                  THEN /\ last' = CogResponse("start_btn", "Need at least one player to start.", u, v)
                       /\ UNCHANGED <<heap, views>>
                  ELSE /\ heap' = [heap EXCEPT ![ref] = r[2]]
                       /\ views' = [views EXCEPT ![v].kind = "game",
                                                 ![v].disabled = (game_buttons(r[2]) = "disabled")]
                       /\ last' = Rendered(CogResponse("start_btn", "ok", u, v), game_embed(r[2]))
        /\ UNCHANGED <<cog, tasks>>
        /\ UNCHANGED <<session_vars, deck_ranks>>

\* Cancel that leaves the finished flag alone
cog_cancel_btn_unfinished(v, u) ==
    LET ref == views[v].session
        s   == heap[ref]
        key == <<Guild, views[v].channel>>
    IN  /\ views[v].kind = "lobby"
        /\ IF u # s.host_id
           THEN /\ last' = CogResponse("cancel_btn", "Only the host can cancel.", u, v)
                /\ UNCHANGED <<heap, views, tasks>>
           ELSE /\ Len(tasks) < MaxTasks
                /\ UNCHANGED heap
                /\ views' = [views EXCEPT ![v].kind = "canceled"]
                /\ tasks' = Append(tasks, [op |-> "cancel_btn", view |-> v, key |-> key])
                /\ last' = CogResponse("cancel_btn", "Table canceled.", u, v)
        /\ UNCHANGED cog
        /\ UNCHANGED <<session_vars, deck_ranks>>

\* Cancel on the lobby view v by member u, up to its await: the host's
\* Cancel sets finished and edits the message (view=None); the handler goes
\* on after the await with the key of the interaction
cog_cancel_btn(v, u) ==
    LET ref == views[v].session
        s   == heap[ref]
        key == <<Guild, views[v].channel>>
    IN  /\ views[v].kind = "lobby"
        /\ IF u # s.host_id
           THEN /\ last' = CogResponse("cancel_btn", "Only the host can cancel.", u, v)
                /\ UNCHANGED <<heap, views, tasks>>
           ELSE /\ Len(tasks) < MaxTasks
                /\ heap' = [heap EXCEPT ![ref].finished = TRUE]
                /\ views' = [views EXCEPT ![v].kind = "canceled"]
                /\ tasks' = Append(tasks, [op |-> "cancel_btn", view |-> v, key |-> key])
                /\ last' = CogResponse("cancel_btn", "Table canceled.", u, v)
        /\ UNCHANGED cog
        /\ UNCHANGED <<session_vars, deck_ranks>>

\* the suspended Cancel handler empties the table registry
cog_cancel_pop_all(i) ==
    /\ tasks[i].op = "cancel_btn"
    /\ cog' = [cog EXCEPT !.table_sessions = [k \in TableKeys |-> None]]
    /\ tasks' = SubSeq(tasks, 1, i - 1) \o SubSeq(tasks, i + 1, Len(tasks))
    /\ last' = CogResponse("cancel_btn", "popped", None, tasks[i].view)
    /\ UNCHANGED <<heap, views>>
    /\ UNCHANGED <<session_vars, deck_ranks>>

\* the suspended Cancel handler i goes on: self.cog.table_sessions.pop(key, None)
cog_cancel_pop(i) ==
    /\ tasks[i].op = "cancel_btn"
    /\ cog' = [cog EXCEPT !.table_sessions[tasks[i].key] = None]
    /\ tasks' = SubSeq(tasks, 1, i - 1) \o SubSeq(tasks, i + 1, Len(tasks))
    /\ last' = CogResponse("cancel_btn", "popped", None, tasks[i].view)
    /\ UNCHANGED <<heap, views>>
    /\ UNCHANGED <<session_vars, deck_ranks>>

\* a button of the BlackjackTableGame view v pressed by member u
cog_game_btn(op, v, u, outcomes) ==
    LET ref == views[v].session
        s   == heap[ref]
    IN  /\ views[v].kind = "game"
        /\ ~views[v].disabled
        /\ IF s.finished
           THEN /\ last' = CogResponse(op, "Game finished.", u, v)
                /\ UNCHANGED <<heap, views>>
           ELSE IF u # current_player_id(s)
           THEN /\ last' = CogResponse(op, "Not your turn.", u, v)
                /\ UNCHANGED <<heap, views>>
           ELSE \E t \in Outcomes(outcomes) :
                  /\ heap' = [heap EXCEPT ![ref] = t]
                  /\ views' = [views EXCEPT ![v].disabled = (game_buttons(t) = "disabled")]
                  /\ last' = Rendered(CogResponse(op, "ok", u, v), game_embed(t))
        /\ UNCHANGED <<cog, tasks>>
        /\ UNCHANGED <<session_vars, deck_ranks>>

cog_game_hit_btn(v, u) ==
    cog_game_btn("game_hit_btn", v, u, player_hit(heap[views[v].session], u))

cog_game_stand_btn(v, u) ==
    cog_game_btn("game_stand_btn", v, u, player_stand(heap[views[v].session], u))

cog_game_double_btn(v, u) ==
    cog_game_btn("game_double_btn", v, u, player_double(heap[views[v].session], u))

\* the state after setup(bot) added the cog
CogInit ==
    /\ deck_ranks = RANKS
    /\ cog = Blackjack
    /\ heap = <<>>
    /\ views = <<>>
    /\ tasks = <<>>
    /\ last = CogResponse("setup", "ok", None, None)
    /\ session_unused

CogNext ==
    \/ \E u \in Members :
        \/ slash_blackjack(u)
        \/ \E c \in Channels : slash_blackjack_table(c, u)
        \/ \E v \in DOMAIN views :
            \/ cog_hit_btn(v, u)
            \/ cog_stand_btn(v, u)
            \/ cog_double_btn(v, u)
            \/ cog_join_btn(v, u)
            \/ cog_leave_btn(v, u)
            \/ cog_start_btn(v, u)
            \/ cog_cancel_btn(v, u)
            \/ cog_game_hit_btn(v, u)
            \/ cog_game_stand_btn(v, u)
            \/ cog_game_double_btn(v, u)
    \/ \E i \in DOMAIN tasks : cog_cancel_pop(i)

CogSpec == CogInit /\ [][CogNext]_vars

----------------------------------------------------------------------------
(* The handlers of the play buttons as coroutines on the bot's event loop. *)
(* A button press makes a task; the loop runs one task at a time, from its *)
(* start or from the await it is suspended at to its next await, and only  *)
(* then takes another task.  A task is [op, user, pc, before]: pc is the   *)
(* statement it is at, before the session as its check found it.           *)

MaxHandlers == 2

GameOps == {"game_hit_btn", "game_stand_btn", "game_double_btn"}

UiOps == {"ui_hit_btn", "ui_stand_btn", "ui_double_btn"}

\* a handler with an await between its check and its call on the session
await_pcs_before_call == {"await_send", "await_edit", "call"}

\* the statements that hold an await: `return await ...send_message(...)`
\* after a failed check, and the edit_message at the end of _refresh
await_pcs == {"await_send", "await_edit"}

\* the task is not running: it has not begun, or it is suspended at an await
Suspended(t) == t.pc = "start" \/ t.pc \in await_pcs

\* threads in place of coroutines: a task runs whatever the others are at
loop_preemptive == TRUE

\* no task is running, so the loop can take one
loop_idle == \A i \in DOMAIN tasks : Suspended(tasks[i])

\* task i can take its next step
may_step(i) == ~Suspended(tasks[i]) \/ loop_idle

\* the tasks without task i
drop_task(i) == SubSeq(tasks, 1, i - 1) \o SubSeq(tasks, i + 1, Len(tasks))

\* the session a task of this op works on
session_of(op) == IF op \in GameOps THEN table ELSE solo

handler_frame ==
    UNCHANGED <<settle_calls, dealer_play_calls, dealer_pc, cog, heap, views, deck_ranks>>

\* member u presses a play button whose view shows it enabled
dispatch(op, u) ==
    /\ Len(tasks) < MaxHandlers
    /\ IF op \in GameOps
       THEN table # <<>> /\ game_view = "enabled"
       ELSE solo # <<>> /\ ~ui_views[1].disabled
    /\ tasks' = Append(tasks, [op |-> op, user |-> u, pc |-> "start", before |-> None])
    /\ UNCHANGED <<table, game_view, solo, ui_views, last>>
    /\ handler_frame

\* the checks at the top of the handler
handler_check(i) ==
    LET t == tasks[i]
        status == IF t.op \in GameOps
                  THEN IF table.finished THEN "Game finished."
                       ELSE IF t.user # current_player_id(table) THEN "Not your turn."
                       ELSE "ok"
                  ELSE IF t.user # solo.player_id THEN "This isn't your game." ELSE "ok"
    IN  /\ t.pc = "start"
        /\ may_step(i)
        /\ tasks' = [tasks EXCEPT ![i].before = session_of(t.op),
                                  ![i].pc = IF status # "ok" THEN "await_send"
                                            ELSE IF t.op = "ui_stand_btn" THEN "dealer_play"
                                            ELSE "call"]
        /\ last' = Response(t.op, status)
        /\ UNCHANGED <<table, game_view, solo, ui_views>>
        /\ handler_frame

\* the call on the session: player_hit, player_stand or player_double of the
\* table, hit("player") of the solo session
handler_call(i) ==
    LET t == tasks[i]
    IN  /\ t.pc = "call"
        /\ may_step(i)
        /\ IF t.op \in GameOps
           THEN /\ table' \in Shuffles(IF t.op = "game_hit_btn" THEN player_hit(table, t.user)
                                       ELSE IF t.op = "game_stand_btn" THEN player_stand(table, t.user)
                                       ELSE player_double(table, t.user))
                /\ tasks' = [tasks EXCEPT ![i].pc = "refresh"]
                /\ UNCHANGED solo
           ELSE /\ solo' \in Shuffles(session_hit(solo, "player"))
                /\ tasks' = [tasks EXCEPT ![i].pc =
                       IF t.op = "ui_hit_btn"
                       THEN IF hand_value(solo'.player)[1] > 21 THEN "dealer_play" ELSE "refresh"
                       ELSE IF hand_value(solo'.player)[1] <= 21 THEN "dealer_play" ELSE "settle"]
                /\ UNCHANGED table
        /\ UNCHANGED <<game_view, ui_views, last>>
        /\ handler_frame

\* self.session.dealer_play() of a solo handler
handler_dealer_play(i) ==
    /\ tasks[i].pc = "dealer_play"
    /\ may_step(i)
    /\ solo' \in Shuffles(session_dealer_play(solo))
    /\ tasks' = [tasks EXCEPT ![i].pc = "settle"]
    /\ UNCHANGED <<table, game_view, ui_views, last>>
    /\ handler_frame

\* self.session.settle() of a solo handler
handler_settle(i) ==
    /\ tasks[i].pc = "settle"
    /\ may_step(i)
    /\ solo' = settle(solo)
    /\ tasks' = [tasks EXCEPT ![i].pc = "refresh"]
    /\ UNCHANGED <<table, game_view, ui_views, last>>
    /\ handler_frame

\* _refresh up to its await: the buttons of the view are set
handler_refresh(i) ==
    /\ tasks[i].pc = "refresh"
    /\ may_step(i)
    /\ IF tasks[i].op \in GameOps
       THEN game_view' = game_buttons(table) /\ UNCHANGED ui_views
       ELSE ui_views' = ui_refresh(1, solo) /\ UNCHANGED game_view
    /\ tasks' = [tasks EXCEPT ![i].pc = "await_edit"]
    /\ UNCHANGED <<table, solo, last>>
    /\ handler_frame

\* the awaited call is answered and the handler returns
handler_return(i) ==
    /\ tasks[i].pc \in {"await_send", "await_edit"}
    /\ may_step(i)
    /\ tasks' = drop_task(i)
    /\ UNCHANGED <<table, game_view, solo, ui_views, last>>
    /\ handler_frame

\* a table right after the host's Start with both members seated, or a solo
\* session right after /blackjack
HandlerInit ==
    /\ deck_ranks = RANKS
    /\ \/ /\ table \in Shuffles({r[2] : r \in table_start(
                        add_player(add_player(TableSession(Host), 1)[2], 2)[2])})
          /\ game_view = "enabled"
          /\ solo = <<>>
          /\ ui_views = <<>>
          /\ last = Response("start_btn", "ok")
       \/ /\ solo \in Shuffles(session_start(BlackjackSession(Participant)))
          /\ ui_views = <<[disabled |-> FALSE]>>
          /\ table = <<>>
          /\ game_view = "none"
          /\ last = Response("blackjack", "ok")
    /\ tasks = <<>>
    /\ settle_calls = 0
    /\ dealer_play_calls = 0
    /\ dealer_pc = "idle"
    /\ cog = <<>>
    /\ heap = <<>>
    /\ views = <<>>

HandlerNext ==
    \/ \E op \in GameOps \cup UiOps, u \in Members : dispatch(op, u)
    \/ \E i \in DOMAIN tasks :
        \/ handler_check(i)
        \/ handler_call(i)
        \/ handler_dealer_play(i)
        \/ handler_settle(i)
        \/ handler_refresh(i)
        \/ handler_return(i)

HandlerSpec == HandlerInit /\ [][HandlerNext]_vars

----------------------------------------------------------------------------
(* The table whose current actor, while there is one, sooner or later has  *)
(* a Hit, Stand or Double accepted, whatever other requests come between.  *)
(* The buttons of the game view are enabled exactly while the table is     *)
(* Active (GameViewEnabledWhileActive), so this is weak fairness of        *)
(* CurrentActorPlays, written out.                                         *)

CurrentActorPlays ==
    /\ last'.status = "ok"
    /\ last'.op \in {"game_hit_btn", "game_stand_btn", "game_double_btn"}
    /\ UNCHANGED solo_vars
    /\ \E u \in Users :
         /\ u = current_player_id(table)
         /\ \/ last'.op = "game_hit_btn" /\ game_hit_btn(u)
            \/ last'.op = "game_stand_btn" /\ game_stand_btn(u)
            \/ last'.op = "game_double_btn" /\ game_double_btn(u)

GameViewEnabledWhileActive ==
    (table.started /\ ~table.finished) => game_view = "enabled"

ActorFairness ==
    \/ []<>(~(table.started /\ ~table.finished))
    \/ []<><<CurrentActorPlays>>_vars

LiveSpec == Init /\ [][Next]_vars /\ ActorFairness

----------------------------------------------------------------------------
(* Properties *)

Total(cards) == hand_value(cards)[1]

Seats(s) == {s.order[i] : i \in 1..Len(s.order)}

Active(s) == s.started /\ ~s.finished

PlayOps ==
    {"game_hit_btn", "game_stand_btn", "game_double_btn",
     "player_hit", "player_stand", "player_double"}

\* the step is the Hit, Stand or Double request named by last'.op, by identity u
PlayRequest(u) ==
    CASE last'.op = "game_hit_btn"    -> game_hit_btn(u)
      [] last'.op = "game_stand_btn"  -> game_stand_btn(u)
      [] last'.op = "game_double_btn" -> game_double_btn(u)
      [] last'.op = "player_hit"      -> call_player_hit(u)
      [] last'.op = "player_stand"    -> call_player_stand(u)
      [] last'.op = "player_double"   -> call_player_double(u)
      [] OTHER -> FALSE

\* C1: a Hit, Stand or Double (button or method call) by an identity that is
\* not the current actor, or on a table that is not started or is finished,
\* leaves every field of the table session as it was.
C1_RejectedPlayChangesNothing ==
    [][(last'.op \in PlayOps /\ table' # table) =>
         \A u \in Users :
            PlayRequest(u) =>
                /\ u = current_player_id(table)
                /\ table.started
                /\ ~table.finished]_vars

C1_Witness ==
    /\ Active(table)
    /\ Len(table.order) = 2
    /\ last = Response("game_hit_btn", "Not your turn.")

\* C2: while the table is started and not finished the cursor is a valid
\* index and the hand of the seat it points at is not bust.
C2_CursorOnLiveSeat ==
    Active(table) =>
        /\ 0 <= table.turn_index
        /\ table.turn_index < Len(table.order)
        /\ Total(table.players[table.order[table.turn_index + 1]]) <= 21

C2_Witness ==
    /\ Active(table)
    /\ table.turn_index = 1
    /\ Total(table.players[table.order[1]]) > 21
    /\ Total(table.players[table.order[2]]) <= 21

\* C3: a bust seat is never the current actor and its hand never changes;
\* a Hit that busts a seat other than the last makes the next seat in seat
\* order the current actor in the same step.
C3_BustSeatIsDone ==
    /\ [](\A u \in DOMAIN table.players :
            Total(table.players[u]) > 21 => current_player_id(table) # u)
    /\ [][table'.players # table.players =>
            \A u \in DOMAIN table.players :
                Total(table.players[u]) > 21 =>
                    /\ u \in DOMAIN table'.players
                    /\ table'.players[u] = table.players[u]]_vars
    /\ [][(/\ last'.op \in {"game_hit_btn", "player_hit"}
           /\ table' # table
           /\ table.turn_index < Len(table.order) - 1) =>
            \A u \in Users :
                (/\ u = current_player_id(table)
                 /\ game_hit_btn(u) \/ call_player_hit(u)
                 /\ Total(table'.players[u]) > 21)
                => /\ ~table'.finished
                   /\ table'.turn_index = table.turn_index + 1
                   /\ current_player_id(table') = table.order[table.turn_index + 2]]_vars

C3_Witness ==
    /\ Active(table)
    /\ last = Response("game_hit_btn", "ok")
    /\ table.turn_index = 1
    /\ Total(table.players[table.order[1]]) > 21
    /\ current_player_id(table) = table.order[2]

\* C4: a started table eventually is finished when the current actor keeps
\* acting, and as soon as the cursor is past the last seat the dealer has
\* played and every seat is settled.
C4_TableTerminates ==
    /\ table.started ~> table.finished
    /\ [](table.started /\ table.turn_index >= Len(table.order) =>
            /\ table.finished
            /\ Total(table.dealer) >= 17
            /\ DOMAIN table.results = Seats(table))

C4_Witness ==
    /\ table.started
    /\ table.finished
    /\ Len(table.order) = 2
    /\ table.turn_index = 2
    /\ Len(table.dealer) > 2
    /\ last.status = "ok"

\* C5: once the table is started every Join and Leave fails, whoever asks,
\* and the seat order and the key set of the hand map never change.
C5_SeatsFixedOnceStarted ==
    [][table.started =>
        /\ table'.order = table.order
        /\ DOMAIN table'.players = DOMAIN table.players
        /\ \A u \in Users :
             /\ add_player(table, u) = <<FALSE, table>>
             /\ remove_player(table, u) = <<FALSE, table>>
             /\ (last'.op \in {"join_btn", "leave_btn"} /\ (join_btn(u) \/ leave_btn(u)))
                    => table' = table /\ last'.status # "ok"]_vars

C5_Witness ==
    /\ table.started
    /\ Len(table.order) = 1
    /\ last = Response("join_btn", "You're already seated or the game started.")

\* C6: once a solo session is finished no request changes its player hand,
\* dealer hand, shoe or result.
C6_FinishedSoloImmutable ==
    [][solo.finished =>
        /\ solo'.player = solo.player
        /\ solo'.dealer = solo.dealer
        /\ solo'.deck = solo.deck
        /\ solo'.result = solo.result]_vars

\* C7: settle() runs at most once on a solo session and a result, once
\* assigned, is never assigned again.
C7_SettleOnce ==
    /\ [](settle_calls <= 1)
    /\ [][solo.result # "none" => solo'.result = solo.result]_vars

\* C8: a solo Hit, Stand or Double by anyone but the session's participant
\* is rejected and leaves the session unchanged.
C8_OnlyParticipantPlays ==
    [][\A u \in Users : \A v \in 1..Len(ui_views) :
         (/\ u # solo.player_id
          /\ ui_hit_btn(v, u) \/ ui_stand_btn(v, u) \/ ui_double_btn(v, u))
         => /\ solo' = solo
            /\ last'.status = "This isn't your game."]_vars

C8_Witness ==
    /\ last = Response("ui_double_btn", "This isn't your game.")
    /\ ~solo.finished

\* C9: settle() sets the result by the ordered rule: player bust loses; else
\* dealer bust wins; else a blackjack on one side only decides; else the
\* higher total wins and equal totals push.
C9_SettleRule ==
    solo.finished /\ settle_calls = 1 =>
        LET pv  == Total(solo.player)
            dv  == Total(solo.dealer)
            pbj == Len(solo.player) = 2 /\ pv = 21
            dbj == Len(solo.dealer) = 2 /\ dv = 21
            r   == solo.result
        IN  /\ r \in {"win", "lose", "push"}
            /\ pv > 21 => r = "lose"
            /\ pv <= 21 /\ dv > 21 => r = "win"
            /\ pv <= 21 /\ dv <= 21 /\ pbj /\ ~dbj => r = "win"
            /\ pv <= 21 /\ dv <= 21 /\ dbj /\ ~pbj => r = "lose"
            /\ pv <= 21 /\ dv <= 21 /\ (pbj <=> dbj) /\ pv > dv => r = "win"
            /\ pv <= 21 /\ dv <= 21 /\ (pbj <=> dbj) /\ pv < dv => r = "lose"
            /\ pv <= 21 /\ dv <= 21 /\ (pbj <=> dbj) /\ pv = dv => r = "push"
            /\ pv = 20 /\ dv = 20 => r = "push"
            /\ pbj /\ dv = 21 /\ Len(solo.dealer) = 3 => r = "win"
            /\ pbj /\ dbj => r = "push"

C9_Witness ==
    /\ solo.finished
    /\ settle_calls = 1
    /\ Len(solo.player) = 2 /\ Total(solo.player) = 21
    /\ Len(solo.dealer) = 3 /\ Total(solo.dealer) = 21
    /\ solo.result = "win"

\* C10: after settle_all() every seated player, and nobody else, has a
\* result, and it is the result solo settle() gives for that player's hand
\* against the dealer's hand.
C10_SettleAllIsSettlePerSeat ==
    table.started /\ table.turn_index >= Len(table.order) =>
        /\ DOMAIN table.results = Seats(table)
        /\ \A u \in Seats(table) :
             table.results[u] =
                settle([BlackjackSession(u) EXCEPT !.player = table.players[u],
                                                   !.dealer = table.dealer]).result

C10_Witness ==
    /\ table.started
    /\ table.turn_index >= Len(table.order)
    /\ Len(table.order) = 2
    /\ table.results[table.order[1]] = "push"
    /\ table.results[table.order[2]] = "lose"
    /\ Total(table.players[table.order[2]]) <= 21


\* Settled: the dealer has played and every seated player has a result
Settled(s) ==
    /\ Total(s.dealer) >= 17
    /\ \A u \in Seats(s) : u \in DOMAIN s.results /\ s.results[u] \in {"win", "lose", "push"}

\* C11 as stated: whenever a table session is finished, the dealer total is
\* at least 17 and every seated player has a result in {win, lose, push}.
C11_FinishedIsSettled == table.finished => Settled(table)

\* C11 amended: a table session finished by play (the cursor passed the last
\* seat) is Settled; the only other step that finishes a table is the host's
\* Cancel, which sets finished and nothing else.
C11_FinishedByPlayIsSettled ==
    /\ [](table.finished /\ table.started /\ table.turn_index >= Len(table.order)
            => Settled(table))
    /\ [][~table.finished /\ table'.finished =>
            IF last'.op = "cancel_btn"
            THEN table' = [table EXCEPT !.finished = TRUE]
            ELSE table'.started /\ table'.turn_index >= Len(table'.order) /\ Settled(table')]_vars

C11_Witness ==
    /\ table.finished
    /\ Len(table.order) = 2
    /\ Settled(table)
    /\ Len(table.dealer) > 2
    /\ last.op \in {"game_hit_btn", "game_stand_btn", "game_double_btn"}

\* the dealer hands BlackjackTableSession.dealer_play can end with, from the
\* dealer hand and shoe of session s
TableDealerHands(s) ==
    {t.dealer : t \in table_dealer_play([TableSession(Host) EXCEPT !.dealer = s.dealer,
                                                                   !.deck = s.deck])}

\* C12: dealer_play always returns, with a dealer total of at least 17, and
\* each card it draws is appended while the dealer total is below 17; the
\* same holds of every outcome of the loop taken as a whole, in the solo and
\* in the table session.
C12_DealerPlayHalts ==
    /\ (dealer_pc = "loop") ~> (dealer_pc = "idle")
    /\ [](dealer_pc = "idle" /\ dealer_play_calls >= 1 => Total(solo.dealer) >= 17)
    /\ [][solo'.dealer # solo.dealer =>
            /\ dealer_pc = "loop"
            /\ Total(solo.dealer) < 17
            /\ Len(solo'.dealer) = Len(solo.dealer) + 1
            /\ SubSeq(solo'.dealer, 1, Len(solo.dealer)) = solo.dealer]_vars
    /\ [](dealer_pc = "loop" =>
            /\ \A t \in session_dealer_play(solo) :
                 /\ Total(t.dealer) >= 17
                 /\ Len(t.dealer) > Len(solo.dealer) =>
                        Total(SubSeq(t.dealer, 1, Len(t.dealer) - 1)) < 17
            /\ TableDealerHands(solo) = {t.dealer : t \in session_dealer_play(solo)})

C12_Witness ==
    /\ dealer_pc = "idle"
    /\ dealer_play_calls = 1
    /\ Len(solo.dealer) = 4
    /\ Total(solo.dealer) = 17
    /\ Total(SubSeq(solo.dealer, 1, 3)) < 17

\* C13: once dealer_play has returned in a session the dealer's hand of that
\* session never changes again, whatever is requested or called afterwards,
\* dealer_play included. (In a table session dealer_play is called by
\* advance_turn only, when the cursor passes the last seat.)
C13_DealerNeverRestarts ==
    [][/\ (solo # <<>> /\ dealer_play_calls >= 1) => solo'.dealer = solo.dealer
       /\ (table # <<>> /\ table.started /\ table.turn_index >= Len(table.order))
            => table'.dealer = table.dealer]_vars

C13_Witness ==
    /\ solo # <<>>
    /\ dealer_play_calls = 2
    /\ dealer_pc = "idle"
    /\ Len(solo.dealer) > 2
    /\ solo.finished

\* the rules of the game, written without the evaluator's loops
RankValue(r) ==
    IF r \in {"J", "Q", "K"} THEN 10
    ELSE IF r = "A" THEN 11
    ELSE CHOOSE n \in 2..10 : ToString(n) = r

RECURSIVE RawSum(_)
RawSum(h) == IF h = <<>> THEN 0 ELSE RankValue(h[Len(h)][1]) + RawSum(SubSeq(h, 1, Len(h) - 1))

Aces(h) == Cardinality({i \in 1..Len(h) : h[i][1] = "A"})

Least(S) == CHOOSE x \in S : \A y \in S : x <= y

Greatest(S) == CHOOSE x \in S : \A y \in S : x >= y

\* C14: the total of hand_value is the raw sum (aces 11) less 10 for each of
\* k aces, k the least number of aces that brings it to 21 or less, or all
\* the aces if none does; that is the greatest total of 21 or less over the
\* ways to count each ace 1 or 11, or else the total with every ace 1.
C14_HandValueTotal ==
    last.op = "hand_value" =>
        LET h    == solo.player
            raw  == RawSum(h)
            Ks   == {k \in 0..Aces(h) : raw - 10 * k <= 21}
            k    == IF Ks # {} THEN Least(Ks) ELSE Aces(h)
            Ways == {raw - 10 * j : j \in 0..Aces(h)}
            Good == {t \in Ways : t <= 21}
        IN  /\ last.status[1] = raw - 10 * k
            /\ last.status[1] = IF Good # {} THEN Greatest(Good) ELSE raw - 10 * Aces(h)

C14_Witness ==
    /\ last.op = "hand_value"
    /\ Aces(solo.player) = 3
    /\ last.status[1] = 13

\* C15: the blackjack flag of hand_value is true exactly for the hands of
\* two cards with total 21, and false for a 21 of three cards or more.
C15_BlackjackFlag ==
    last.op = "hand_value" =>
        /\ last.status[2] <=> (Len(solo.player) = 2 /\ last.status[1] = 21)
        /\ (Len(solo.player) >= 3 /\ last.status[1] = 21) => ~last.status[2]

C15_Witness ==
    /\ last.op = "hand_value"
    /\ Len(solo.player) = 3
    /\ \A i \in 1..3 : solo.player[i][1] = "7"
    /\ last.status = <<21, FALSE>>

\* C16: when the hand with one more card needs no ace reduction (its raw sum
\* is 21 or less, or it holds no ace), its total is at least the total of the
\* hand before the card.
C16_MonotoneUntilReduction ==
    [][(/\ last'.op = "hand_value"
        /\ Len(solo'.player) = Len(solo.player) + 1
        /\ RawSum(solo'.player) <= 21 \/ Aces(solo'.player) = 0)
        => last'.status[1] >= last.status[1]]_vars

C16_Witness ==
    /\ last.op = "hand_value"
    /\ Len(solo.player) = 3
    /\ Aces(solo.player) = 0
    /\ last.status[1] > 21

\* C17: draw() always returns a card of a rank and suit of the deck; on an
\* empty shoe it first makes the shoe the 104 cards of two decks and leaves
\* 103 of them, on any other shoe it removes just the card it returns; the
\* shoe never holds more than 104 cards.
C17_DrawNeverFails ==
    /\ [](/\ draw_from(full_deck, solo.deck) # {}
          /\ BagCardinality(solo.deck) \in 0..104
          /\ solo.deck \sqsubseteq full_deck
          /\ last.op = "draw" => last.status \in AllRanks \X FullSuits)
    /\ [][last'.op = "draw" =>
            IF solo.deck = EmptyBag
            THEN /\ BagCardinality(solo'.deck) = 103
                 /\ solo'.deck (+) SetToBag({last'.status}) = full_deck
                 /\ BagCardinality(full_deck) = 104
            ELSE /\ BagCardinality(solo'.deck) = BagCardinality(solo.deck) - 1
                 /\ solo'.deck (+) SetToBag({last'.status}) = solo.deck]_vars

C17_Witness ==
    /\ last.op = "draw"
    /\ BagCardinality(solo.deck) = 103
    /\ last.status = <<"10", "H">>

\* the hand `after` is the hand `before` and one card more
OneCardMore(before, after) ==
    /\ Len(after) = Len(before) + 1
    /\ SubSeq(after, 1, Len(before)) = before

\* C18: a solo session becomes finished by a Stand, a Double or a Hit that
\* takes the player over 21 and by nothing else; a Hit that leaves the player
\* at 21 or less adds one card to the player's hand and leaves the dealer's
\* hand, finished and result as they were; a Stand leaves the player's hand
\* as it was and the session finished.
C18_SoloFinishesOnStandDoubleBust ==
    /\ [][(~solo.finished /\ solo'.finished) =>
            /\ last'.status = "ok"
            /\ \/ last'.op \in {"ui_stand_btn", "ui_double_btn"}
               \/ last'.op = "ui_hit_btn" /\ Total(solo'.player) > 21]_vars
    /\ [][last' = Response("ui_hit_btn", "ok") =>
            /\ OneCardMore(solo.player, solo'.player)
            /\ IF Total(solo'.player) <= 21
               THEN /\ solo'.dealer = solo.dealer
                    /\ solo'.finished = solo.finished
                    /\ solo'.result = solo.result
               ELSE solo'.finished]_vars
    /\ [][last' = Response("ui_stand_btn", "ok") =>
            solo'.player = solo.player /\ solo'.finished]_vars
    /\ [][last' = Response("ui_double_btn", "ok") => solo'.finished]_vars

C18_Witness ==
    /\ last = Response("ui_hit_btn", "ok")
    /\ ~solo.finished
    /\ Len(solo.player) = 3
    /\ Total(solo.player) = 21
    /\ solo.result = "none"

\* C19: a Hit on an unfinished solo session that takes the player over 21
\* plays the dealer and settles in the same step: the session is finished,
\* the result is lose and the dealer total is at least 17.
C19_BustingHitSettles ==
    [][(/\ ~solo.finished
        /\ last' = Response("ui_hit_btn", "ok")
        /\ Total(solo'.player) > 21) =>
            /\ solo'.finished
            /\ solo'.result = "lose"
            /\ Total(solo'.dealer) >= 17
            /\ settle_calls' = settle_calls + 1
            /\ dealer_play_calls' = dealer_play_calls + 1]_vars

C19_Witness ==
    /\ last = Response("ui_hit_btn", "ok")
    /\ settle_calls = 1
    /\ solo.finished
    /\ Total(solo.player) > 21
    /\ solo.result = "lose"
    /\ Len(solo.dealer) > 2
    /\ Total(solo.dealer) >= 17

\* C20: a Double on an unfinished solo session adds one card to the player's
\* hand and leaves the session finished; the dealer draws in that step only
\* when the player's new total is 21 or less, and after a Double that busts
\* the dealer still holds just the two cards of the deal and the result is
\* lose.
C20_DoubleOneCardThenSettle ==
    [][(~solo.finished /\ last' = Response("ui_double_btn", "ok")) =>
            /\ OneCardMore(solo.player, solo'.player)
            /\ solo'.finished
            /\ settle_calls' = settle_calls + 1
            /\ solo'.dealer # solo.dealer => Total(solo'.player) <= 21
            /\ Total(solo'.player) > 21 =>
                 /\ solo'.dealer = solo.dealer
                 /\ Len(solo'.dealer) = 2
                 /\ solo'.result = "lose"]_vars

C20_Witness ==
    /\ last = Response("ui_double_btn", "ok")
    /\ settle_calls = 1
    /\ solo.finished
    /\ Total(solo.player) > 21
    /\ Len(solo.dealer) = 2
    /\ Total(solo.dealer) < 17
    /\ solo.result = "lose"

----------------------------------------------------------------------------
\* C21: in every reachable state of a solo session, finished is true exactly
\* when result is one of win, lose, push, and while the session is not
\* finished the result is none.
C21_FinishedIffResult ==
    /\ solo.finished <=> solo.result \in {"win", "lose", "push"}
    /\ ~solo.finished => solo.result = "none"

\* a settled session that ended in a push, after a view was refreshed
C21_Witness ==
    /\ solo.finished
    /\ solo.result = "push"
    /\ last.op \in {"ui_hit_btn", "ui_stand_btn", "ui_double_btn"}
    /\ \E v \in DOMAIN ui_views : ui_views[v].disabled

----------------------------------------------------------------------------
\* C22: /blackjack for a (context, user) key reuses the registered session
\* without re-dealing (registry and every session object unchanged) when that
\* session exists and is unfinished; when none is registered or the
\* registered one is finished, it registers under that key a new session with
\* two player cards and two dealer cards that is not finished.
C22_StartSoloReusesOrMakes ==
    [][(last'.op = "blackjack" /\ Len(views') = Len(views) + 1) =>
         LET key      == cog_key(Guild, last'.user)
             existing == cog.sessions[key]
             made     == cog'.sessions[key]
         IN  IF existing # None /\ ~heap[existing].finished
             THEN cog' = cog /\ heap' = heap
             ELSE /\ made = Len(heap) + 1
                  /\ Len(heap') = made
                  /\ \A r \in DOMAIN heap : heap'[r] = heap[r]
                  /\ \A k \in SoloKeys \ {key} : cog'.sessions[k] = cog.sessions[k]
                  /\ heap'[made].player_id = key[2]
                  /\ Len(heap'[made].player) = 2
                  /\ Len(heap'[made].dealer) = 2
                  /\ ~heap'[made].finished]_vars

\* a finished session was replaced under its key by a new one
C22_Witness ==
    /\ last.op = "blackjack"
    /\ last.status = "made"
    /\ Len(heap) = 2
    /\ "player_id" \in DOMAIN heap[1]
    /\ heap[1].finished
    /\ ~heap[2].finished
    /\ "player_id" \in DOMAIN heap[2]
    /\ heap[1].player_id = heap[2].player_id
    /\ cog.sessions[cog_key(Guild, last.user)] = 2
    /\ views[2].session = 2

----------------------------------------------------------------------------
\* Lobby with a seat taken: the states in which start() can succeed
CanStart(s) == ~s.started /\ ~s.finished /\ Len(s.order) >= 1

\* C23: a Start changes the table only when it is in Lobby (not started, not
\* finished) with at least one seat, and then it sets started, gives the
\* dealer and every seated player exactly two cards and sets the cursor to
\* seat 0, leaving seats, results and finished alone; the host's Start in
\* such a Lobby does succeed; in every other case (no seats, started,
\* finished) nothing changes, so a second Start on an Active table neither
\* re-deals a hand nor resets the cursor.
C23_StartOnlyFromLobby ==
    [][last'.op = "start_btn" =>
         /\ ~CanStart(table) => table' = table
         /\ table' # table =>
              /\ table'.started
              /\ Len(table'.dealer) = 2
              /\ \A uid \in Seats(table) : Len(table'.players[uid]) = 2
              /\ DOMAIN table'.players = Seats(table)
              /\ table'.turn_index = 0
              /\ table'.order = table.order
              /\ table'.finished = table.finished
              /\ table'.results = table.results
              /\ table'.host_id = table.host_id
         /\ (CanStart(table) /\ last'.status # "Only the host can start.") =>
              table'.started]_vars

\* a second Start arrived at an Active table whose first seat had taken a
\* card and whose cursor had moved on, and was turned down
C23_Witness ==
    /\ last.op = "start_btn"
    /\ last.status = "Need at least one player to start."
    /\ table.started
    /\ ~table.finished
    /\ Len(table.order) = 2
    /\ table.turn_index = 1
    /\ Len(table.players[table.order[1]]) = 3

----------------------------------------------------------------------------
Lobby(s) == ~s.started /\ ~s.finished

NoDuplicates(seq) == \A i, j \in 1..Len(seq) : seq[i] = seq[j] => i = j

\* seq without its element x
Without(seq, x) == SelectSeq(seq, LAMBDA y : y # x)

SeatsAgree(s) == NoDuplicates(s.order) /\ Seats(s) = DOMAIN s.players

\* the result add_player is to give in state s
AddPlayerContract(s, u) ==
    LET r == add_player(s, u)
    IN  /\ r[1] <=> (Lobby(s) /\ u \notin Seats(s))
        /\ r[1] => /\ r[2].order = Append(s.order, u)
                   /\ DOMAIN r[2].players = DOMAIN s.players \cup {u}
                   /\ \A w \in DOMAIN s.players : r[2].players[w] = s.players[w]
                   /\ r[2].players[u] = <<>>
                   /\ [r[2] EXCEPT !.order = s.order, !.players = s.players] = s
        /\ ~r[1] => r[2] = s

\* the result remove_player is to give in state s
RemovePlayerContract(s, u) ==
    LET r == remove_player(s, u)
    IN  /\ r[1] <=> (Lobby(s) /\ u \in Seats(s))
        /\ r[1] => /\ r[2].order = Without(s.order, u)
                   /\ DOMAIN r[2].players = DOMAIN s.players \ {u}
                   /\ \A w \in DOMAIN r[2].players : r[2].players[w] = s.players[w]
                   /\ [r[2] EXCEPT !.order = s.order, !.players = s.players] = s
        /\ ~r[1] => r[2] = s

\* C24: in every reachable state of a table the seat order holds no identity
\* twice and its identities are the keys of the hand map; in Lobby add_player
\* succeeds iff the identity is not seated and appends it at the end of the
\* seat order, remove_player succeeds iff the identity is seated and removes
\* it from both, outside Lobby both fail, and a failing call changes nothing;
\* a Join or Leave changes the table by such a call only.
C24_SeatsAndHandsAgree ==
    /\ [](/\ SeatsAgree(table)
          /\ \A u \in Users : AddPlayerContract(table, u) /\ RemovePlayerContract(table, u))
    /\ [][(last'.op = "join_btn" =>
               table' \in {table} \cup {add_player(table, u)[2] : u \in Users})
          /\ (last'.op = "leave_btn" =>
               table' \in {table} \cup {remove_player(table, u)[2] : u \in Users \ {table.host_id}})]_vars

\* the first of two seated identities left the Lobby
C24_Witness ==
    /\ last.op = "leave_btn"
    /\ last.status = "ok"
    /\ Lobby(table)
    /\ table.order = <<Host>>
    /\ DOMAIN table.players = {Host}

----------------------------------------------------------------------------
\* C25: a Start or a Cancel pressed by anyone other than the host of the
\* table, and a Leave pressed by the host (seated or not), change neither the
\* session nor the registries, nor any other object, view or handler.
C25_RoleChecksChangeNothing ==
    [][(last'.op \in {"start_btn", "cancel_btn", "leave_btn"} /\ last'.user \in Members) =>
         LET host == heap[views[last'.view].session].host_id
         IN  (IF last'.op = "leave_btn" THEN last'.user = host ELSE last'.user # host)
                => /\ cog' = cog
                   /\ heap' = heap
                   /\ views' = views
                   /\ tasks' = tasks]_vars

\* the host, seated in the Lobby of a registered table, pressed Leave
C25_Witness ==
    /\ last.op = "leave_btn"
    /\ last.user \in Members
    /\ LET ref == views[last.view].session
       IN  /\ last.user = heap[ref].host_id
           /\ Lobby(heap[ref])
           /\ heap[ref].order = <<last.user>>
           /\ cog.table_sessions[<<Guild, views[last.view].channel>>] = ref

----------------------------------------------------------------------------
\* the message of view v shows "Table canceled."
Canceled(v) == views[v].kind = "canceled"

\* the Cancel handler of view v has run to its end
CancelCompleted(v) == Canceled(v) /\ \A i \in DOMAIN tasks : tasks[i].view # v

\* the session object ref was canceled by its host
CanceledSession(ref) == \E v \in DOMAIN views : Canceled(v) /\ views[v].session = ref

\* C26: once the host's Cancel has completed, the canceled session is finished
\* and the table registry does not map the (guild, channel) key to it, from
\* then on; and every Join, Start, Hit, Stand or Double that comes to a
\* canceled session afterwards is rejected and changes neither that session
\* nor anything else of the cog.
C26_CanceledStaysCanceled ==
    /\ [](\A v \in DOMAIN views :
             CancelCompleted(v) =>
                /\ heap[views[v].session].finished
                /\ cog.table_sessions[<<Guild, views[v].channel>>] # views[v].session)
    /\ [][(/\ last'.op \in {"join_btn", "start_btn", "game_hit_btn",
                            "game_stand_btn", "game_double_btn"}
           /\ CanceledSession(views[last'.view].session)) =>
              /\ last'.status # "ok"
              /\ heap' = heap
              /\ cog' = cog
              /\ views' = views]_vars

\* a Hit came to a started table after its host's Cancel had completed
C26_Witness ==
    /\ last.op = "game_hit_btn"
    /\ last.status = "Game finished."
    /\ heap[views[last.view].session].started
    /\ \E v \in DOMAIN views : CancelCompleted(v) /\ views[v].session = views[last.view].session

----------------------------------------------------------------------------
\* the table session objects that are not finished and belong to the key
UnfinishedTables(key) ==
    {r \in DOMAIN heap : /\ "host_id" \in DOMAIN heap[r]
                         /\ <<heap[r].guild_id, heap[r].channel_id>> = key
                         /\ ~heap[r].finished}

\* C27: /blackjack_table makes a new Lobby only when no unfinished table
\* exists in the (guild, channel) scope and otherwise answers with the
\* existing table; so at every moment a scope has at most one unfinished
\* table session, and every unfinished table session is the one the registry
\* holds for its key.
C27_OneUnfinishedTablePerScope ==
    /\ [](\A key \in TableKeys :
             /\ Cardinality(UnfinishedTables(key)) <= 1
             /\ \A r \in UnfinishedTables(key) : cog.table_sessions[key] = r)
    /\ [][last'.op = "blackjack_table" =>
            LET key == <<Guild, views'[last'.view].channel>>
            IN  IF UnfinishedTables(key) = {}
                THEN /\ Len(heap') = Len(heap) + 1
                     /\ Lobby(heap'[Len(heap')])
                     /\ cog'.table_sessions[key] = Len(heap')
                ELSE /\ heap' = heap
                     /\ cog' = cog
                     /\ views'[last'.view].session \in UnfinishedTables(key)]_vars

----------------------------------------------------------------------------
\* the registry and the key a session object belongs to
ObjectKey(o) ==
    IF "host_id" \in DOMAIN o
    THEN <<"table_sessions", <<o.guild_id, o.channel_id>>>>
    ELSE <<"sessions", cog_key(Guild, o.player_id)>>

\* the registry and the key the request with view w was for
RequestKey(w, h) ==
    IF w.kind = "ui"
    THEN <<"sessions", cog_key(Guild, h[w.session].player_id)>>
    ELSE <<"table_sessions", <<Guild, w.channel>>>>

\* C30: a command or a button press for one key (/blackjack, /blackjack_table,
\* Cancel, Join, Leave, Start, Hit, Stand, Double) leaves the entries of both
\* registries under every other key and every session object that belongs to
\* another key as they were, and makes objects for its own key only; a
\* request of one registry leaves the other registry and its sessions alone.
C30_IsolatedByKey ==
    [][last'.op # "setup" =>
         LET k == RequestKey(views'[last'.view], heap')
         IN  /\ \A key \in SoloKeys :
                  <<"sessions", key>> # k => cog'.sessions[key] = cog.sessions[key]
             /\ \A key \in TableKeys :
                  <<"table_sessions", key>> # k =>
                      cog'.table_sessions[key] = cog.table_sessions[key]
             /\ \A r \in DOMAIN heap :
                  ObjectKey(heap[r]) # k => heap'[r] = heap[r]
             /\ \A r \in DOMAIN heap' \ DOMAIN heap : ObjectKey(heap'[r]) = k
             /\ \A w \in DOMAIN views :
                  RequestKey(views[w], heap) # k => views'[w] = views[w]]_vars

\* a Cancel ran to its end in one channel while the other channel holds a
\* registered table that is being played
C30_Witness ==
    /\ last.op = "cancel_btn"
    /\ last.status = "popped"
    /\ \E key \in TableKeys :
         /\ key # <<Guild, views[last.view].channel>>
         /\ cog.table_sessions[key] # None
         /\ Active(heap[cog.table_sessions[key]])

----------------------------------------------------------------------------
\* the statements between a passed check and the end of the mutation
MidMutation == {"call", "dealer_play", "settle"}

\* the sessions the handler of op leaves when it runs from session s with
\* nothing else in between
Sequential(op, u, s) ==
    IF op \in GameOps
    THEN IF s.finished \/ u # current_player_id(s) THEN {s}
         ELSE IF op = "game_hit_btn" THEN player_hit(s, u)
         ELSE IF op = "game_stand_btn" THEN player_stand(s, u)
         ELSE player_double(s, u)
    ELSE IF u # s.player_id THEN {s}
         ELSE IF op = "ui_hit_btn" THEN hit_btn_on(s)
         ELSE IF op = "ui_stand_btn" THEN stand_btn_on(s)
         ELSE double_btn_on(s)

\* task i has just come to the end of its check and mutation
MutationEnds(i) ==
    /\ Len(tasks') = Len(tasks)
    /\ tasks[i].pc \in MidMutation \cup {"start"}
    /\ tasks'[i].pc \in {"refresh", "await_send"}

\* C28: every play request is atomic with respect to the other requests on
\* its session: a handler that has passed its check is never suspended before
\* its mutation is complete, so however the handlers interleave at their
\* awaits at most one handler is mid-mutation, only that handler changes the
\* session meanwhile, and each handler leaves the session as a run of it alone
\* from the state its check found would: the final state is that of the
\* handlers run one after another.
C28_HandlersAtomic ==
    /\ [](/\ Cardinality({i \in DOMAIN tasks : tasks[i].pc \in MidMutation}) <= 1
          /\ \A i \in DOMAIN tasks : tasks[i].pc \in MidMutation => ~Suspended(tasks[i]))
    /\ [][/\ \A i \in DOMAIN tasks :
               MutationEnds(i) =>
                  LET t == tasks'[i]
                  IN  IF t.op \in GameOps THEN table' \in Sequential(t.op, t.user, t.before)
                                          ELSE solo' \in Sequential(t.op, t.user, t.before)
          /\ \A i \in DOMAIN tasks :
               tasks[i].pc \in MidMutation =>
                  /\ Len(tasks') >= Len(tasks)
                  /\ \A j \in DOMAIN tasks \ {i} : tasks'[j] = tasks[j]]_vars

\* a handler is mid-mutation while an earlier one, its mutation made, is
\* suspended at the await of its _refresh
C28_Witness ==
    /\ Len(tasks) = 2
    /\ tasks[1].pc = "await_edit"
    /\ tasks[2].pc \in MidMutation
    /\ tasks[2].before # tasks[1].before

\* C29: requests on a session are applied in the order their handlers start:
\* when a handler starts, every handler on the session that started before
\* it has already made its mutation (or turned its request down), and the
\* state the new handler checks and mutates is the state those left.
C29_AppliedInStartOrder ==
    [][\A j \in DOMAIN tasks :
          (Len(tasks') = Len(tasks) /\ tasks[j].pc = "start" /\ tasks'[j].pc # "start") =>
             /\ \A i \in DOMAIN tasks \ {j} :
                   tasks[i].pc # "start" => tasks[i].pc \in {"refresh", "await_send", "await_edit"}
             /\ tasks'[j].before = session_of(tasks[j].op)]_vars

\* two presses of one member: the first handler made its move and is suspended,
\* the second started after it and was turned down by the state the first left
C29_Witness ==
    /\ Len(tasks) = 2
    /\ tasks[1].pc = "await_edit"
    /\ tasks[2].pc = "await_send"
    /\ tasks[1].user = tasks[2].user
    /\ tasks[2].before # tasks[1].before
    /\ last.status \in {"Not your turn.", "Game finished."}

----------------------------------------------------------------------------
\* C31: the cog never evicts a session on its own.  A key that the solo
\* registry holds stays held in every later state, and when its entry changes
\* the new entry is a session object made in that step.  A key leaves the
\* table registry only in the step in which the handler of a host's Cancel
\* (suspended at its await, its table already finished) goes on to its pop of
\* that key: no settlement and no other request removes a key.
C31_NoEviction ==
    [][/\ \A k \in SoloKeys :
            cog.sessions[k] # None =>
              /\ cog'.sessions[k] # None
              /\ cog'.sessions[k] # cog.sessions[k] =>
                   /\ cog'.sessions[k] = Len(heap) + 1
                   /\ Len(heap') = Len(heap) + 1
       /\ \A k \in TableKeys :
            (cog.table_sessions[k] # None /\ cog'.table_sessions[k] = None) =>
              \E i \in DOMAIN tasks :
                 /\ tasks[i].op = "cancel_btn"
                 /\ tasks[i].key = k
                 /\ views[tasks[i].view].kind = "canceled"
                 /\ heap[views[tasks[i].view].session].finished
                 /\ tasks' = SubSeq(tasks, 1, i - 1) \o SubSeq(tasks, i + 1, Len(tasks))
                 /\ last' = CogResponse("cancel_btn", "popped", None, tasks[i].view)]_vars

\* a settled solo session and a table settled through play, both still held
\* by their registries
C31_Witness ==
    /\ \E k \in SoloKeys :
         /\ cog.sessions[k] # None
         /\ heap[cog.sessions[k]].finished
         /\ heap[cog.sessions[k]].result # "none"
    /\ \E k \in TableKeys :
         /\ cog.table_sessions[k] # None
         /\ heap[cog.table_sessions[k]].started
         /\ heap[cog.table_sessions[k]].finished
         /\ heap[cog.table_sessions[k]].results # EmptyMap

----------------------------------------------------------------------------
\* the cards a shoe of the model can deal
Cards == BagToSet(new_deck)

\* the sessions that differ from s in nothing but the dealer's cards after
\* the first and the shoe
HiddenVariants(s) ==
    {[s EXCEPT !.dealer = <<s.dealer[1]>> \o tail, !.deck = deck] :
        tail \in {<<>>} \cup {<<a>> : a \in Cards} \cup {<<a, b>> : a \in Cards, b \in Cards},
        deck \in {EmptyBag, make_deck, new_deck}}

\* the embed the handler of request op on view v builds for session s
Render(op, v, s) ==
    IF op = "blackjack" THEN blackjack_embed(s)
    ELSE IF views[v].kind = "ui" THEN ui_embed(s)
    ELSE game_embed(s)

\* C32: while a session (solo or table) is not finished, the snapshot a
\* handler renders does not depend on the dealer's hidden cards: every session
\* that agrees with the rendered one on everything except the dealer's cards
\* after the first and the shoe renders to the same snapshot, and the snapshot
\* shows the dealer's first card only, no dealer total and no dealer
\* blackjack flag.
C32_HiddenCardsWithheld ==
    "embed" \in DOMAIN last =>
        LET s == heap[views[last.view].session]
        IN  (~s.finished /\ s.dealer # <<>>) =>
               /\ \A t \in HiddenVariants(s) : Render(last.op, last.view, t) = last.embed
               /\ last.embed.dealer_cards = <<s.dealer[1]>>
               /\ last.embed.dealer_total = {}
               /\ ~last.embed.dealer_bj

\* a game view rendered an unfinished table after a Hit while the dealer
\* holds a hidden second card
C32_Witness ==
    /\ "embed" \in DOMAIN last
    /\ last.op = "game_hit_btn"
    /\ views[last.view].kind = "game"
    /\ ~heap[views[last.view].session].finished
    /\ Len(heap[views[last.view].session].dealer) = 2
    /\ last.embed.dealer_cards = <<heap[views[last.view].session].dealer[1]>>

----------------------------------------------------------------------------
\* the step is an accepted Hit, Stand or Double (button or direct call) of
\* the current actor: a button answered ok, or a call that changed the table
AcceptedPlay(button, method) ==
    /\ Active(table)
    /\ \/ last'.op = button /\ last'.status = "ok"
       \/ last'.op = method /\ table' # table

\* the cursor moved on in the step
TurnAdvanced == table'.turn_index > table.turn_index

\* C33: an accepted table action by the current actor changes only that
\* actor's hand, the shoe and the cursor, plus the dealer hand, results and
\* finished when it triggers settlement.  Hit adds exactly one card to the
\* actor's hand and advances the turn iff the new total exceeds 21; Stand
\* adds no card and advances the turn; Double adds exactly one card and
\* advances the turn whatever the new total; no other seat's hand changes.
C33_PlayFrame ==
    [][LET actor == current_player_id(table)
           hit    == AcceptedPlay("game_hit_btn", "player_hit")
           stand  == AcceptedPlay("game_stand_btn", "player_stand")
           double == AcceptedPlay("game_double_btn", "player_double")
       IN  (hit \/ stand \/ double) =>
             /\ actor # None
             /\ table'.host_id = table.host_id
             /\ table'.order = table.order
             /\ table'.started = table.started
             /\ DOMAIN table'.players = DOMAIN table.players
             /\ \A w \in DOMAIN table.players \ {actor} : table'.players[w] = table.players[w]
             /\ hit => /\ OneCardMore(table.players[actor], table'.players[actor])
                       /\ TurnAdvanced <=> Total(table'.players[actor]) > 21
             /\ stand => /\ table'.players[actor] = table.players[actor]
                         /\ TurnAdvanced
             /\ double => /\ OneCardMore(table.players[actor], table'.players[actor])
                          /\ TurnAdvanced
             /\ IF table'.turn_index >= Len(table.order)
                THEN table'.finished
                ELSE /\ table'.dealer = table.dealer
                     /\ table'.results = table.results
                     /\ table'.finished = table.finished
                     /\ current_player_id(table') # None]_vars

\* the first of two seats stood on two cards: the hand is what was dealt, the
\* turn is the second seat's and the dealer has not played
C33_Witness ==
    /\ last = Response("game_stand_btn", "ok")
    /\ Len(table.order) = 2
    /\ table.turn_index = 1
    /\ ~table.finished
    /\ Len(table.players[table.order[1]]) = 2
    /\ Len(table.dealer) = 2

----------------------------------------------------------------------------
\* C34: Cancel removes from the table registry only the session it cancels.
\* In the step in which the handler of a Cancel goes on to its pop, an entry
\* under its key that is another session than the one of its view (made while
\* the handler was suspended, or registered before Cancel was pressed on a
\* stale lobby view) is still registered afterwards.
C34_CancelRemovesOnlyItsSession ==
    [][\A i \in DOMAIN tasks :
          (/\ tasks[i].op = "cancel_btn"
           /\ last' = CogResponse("cancel_btn", "popped", None, tasks[i].view)
           /\ Len(tasks') = Len(tasks) - 1) =>
             LET key      == tasks[i].key
                 canceled == views[tasks[i].view].session
             IN  cog.table_sessions[key] \notin {None, canceled} =>
                    cog'.table_sessions[key] = cog.table_sessions[key]]_vars

----------------------------------------------------------------------------
\* C35: the table lifecycle is one-way and its terminal state is frozen.
\* started and finished never go from true back to false, and once the table
\* is finished its dealer hand, player hands, seat order, cursor and results
\* never change again, whatever Join, Leave, Start, Cancel, Hit, Stand or
\* Double request follows.
C35_FinishedTableFrozen ==
    [][/\ table.started => table'.started
       /\ table.finished =>
            /\ table'.finished
            /\ table'.dealer = table.dealer
            /\ table'.players = table.players
            /\ table'.order = table.order
            /\ table'.turn_index = table.turn_index
            /\ table'.results = table.results]_vars

\* a seated player pressed Leave on a table that was settled through play
C35_Witness ==
    /\ last = Response("leave_btn", "You're not seated or game started.")
    /\ table.started
    /\ table.finished
    /\ Len(table.order) = 2
    /\ DOMAIN table.results = Seats(table)
    /\ table.turn_index = 2

----------------------------------------------------------------------------
\* the seats the cursor has not reached yet
SeatsAhead(s) == {s.order[i] : i \in (s.turn_index + 2)..Len(s.order)}

\* C36: in a table session every seat is visited once, in seat order.  start
\* puts the cursor on the first seat; while the table is Active the cursor
\* never decreases and a turn advance moves it by exactly one, because a seat
\* the cursor has not reached holds its two initial cards and is not bust (a
\* two-card 21 included: the skip loop of advance_turn skips no one); a table
\* settled through play has its cursor past the last seat.
C36_SeatsVisitedInOrder ==
    /\ [](Active(table) =>
            \A w \in SeatsAhead(table) :
               /\ Len(table.players[w]) = 2
               /\ Total(table.players[w]) <= 21)
    /\ []((table.started /\ table.results # EmptyMap) => table.turn_index = Len(table.order))
    /\ [][/\ (~table.started /\ table'.started) =>
               /\ table'.turn_index = 0
               /\ current_player_id(table') = table'.order[1]
          /\ Active(table) =>
               /\ table'.turn_index \in {table.turn_index, table.turn_index + 1}
               /\ table'.order = table.order
               /\ (table'.turn_index # table.turn_index /\ table'.turn_index < Len(table.order))
                     => current_player_id(table') = table.order[table.turn_index + 2]]_vars

\* the first seat stood and the turn went to the second seat, which holds a
\* two-card 21
C36_Witness ==
    /\ last = Response("game_stand_btn", "ok")
    /\ Active(table)
    /\ Len(table.order) = 2
    /\ table.turn_index = 1
    /\ hand_value(table.players[table.order[2]]) = <<21, TRUE>>
    /\ current_player_id(table) = table.order[2]

----------------------------------------------------------------------------
\* C37: in a table session the dealer acts only at settlement.  While the
\* table is started and not finished the dealer's hand is the two cards
\* start() dealt; the dealer's hand changes only in start() and in the turn
\* advance that moves the cursor past the last seat, where it is played to
\* 17 or more whether or not any seat is still below 22.
C37_DealerActsAtSettlement ==
    /\ [](Active(table) => Len(table.dealer) = 2)
    /\ [][/\ (Active(table) /\ Active(table')) => table'.dealer = table.dealer
          /\ table'.dealer # table.dealer =>
               \/ /\ ~table.started
                  /\ table.dealer = <<>>
                  /\ Active(table')
                  /\ last' = Response("start_btn", "ok")
               \/ /\ Active(table)
                  /\ table.turn_index = Len(table.order) - 1
                  /\ table'.turn_index = Len(table.order)
                  /\ table'.finished
                  /\ SubSeq(table'.dealer, 1, 2) = table.dealer
          /\ (Active(table) /\ table'.turn_index = Len(table.order)) =>
               /\ Total(table'.dealer) >= 17
               /\ Total(table.dealer) < 17 => Len(table'.dealer) > 2]_vars

\* every seat went bust and the dealer, dealt less than 17, still drew
C37_Witness ==
    /\ table.started
    /\ table.finished
    /\ table.turn_index = Len(table.order)
    /\ \A w \in Seats(table) : Total(table.players[w]) > 21 /\ table.results[w] = "lose"
    /\ Len(table.dealer) > 2
    /\ Total(SubSeq(table.dealer, 1, 2)) < 17

----------------------------------------------------------------------------
\* the unfinished solo session objects of a key
UnfinishedSolos(key) ==
    {r \in DOMAIN heap : /\ "player_id" \in DOMAIN heap[r]
                         /\ cog_key(Guild, heap[r].player_id) = key
                         /\ ~heap[r].finished}

\* C38: at every moment at most one unfinished solo session exists per
\* (context, user) key and it is the session the solo registry holds for that
\* key; the entry of a key is replaced only when the session it holds is
\* finished, so no unfinished solo session is ever left without its entry,
\* whatever the order of /blackjack requests and button presses.
C38_OneUnfinishedSoloPerKey ==
    /\ [](\A key \in SoloKeys :
             /\ Cardinality(UnfinishedSolos(key)) <= 1
             /\ \A r \in UnfinishedSolos(key) : cog.sessions[key] = r)
    /\ [][\A key \in SoloKeys :
             (cog.sessions[key] # None /\ cog'.sessions[key] # cog.sessions[key]) =>
                /\ heap[cog.sessions[key]].finished
                /\ cog'.sessions[key] \in UnfinishedSolos(key)']_vars

\* a member's settled session was replaced by a new one, which is registered
\* and still unfinished after a Hit on its view
C38_Witness ==
    /\ Len(heap) = 2
    /\ "player_id" \in DOMAIN heap[1]
    /\ "player_id" \in DOMAIN heap[2]
    /\ heap[1].player_id = heap[2].player_id
    /\ heap[1].finished
    /\ ~heap[2].finished
    /\ cog.sessions[cog_key(Guild, heap[2].player_id)] = 2
    /\ last.op = "ui_hit_btn"
    /\ last.status = "ok"
    /\ views[last.view].session = 2

----------------------------------------------------------------------------
\* C39: in a solo session the shoe is never exhausted, so the refill branch
\* of draw() is never taken: in every reachable state the player's hand, the
\* dealer's hand and the shoe together hold exactly the cards of two decks,
\* each (rank, suit) card twice.
C39_ShoeNeverRefilled ==
    /\ BagOfSeq(solo.player) (+) BagOfSeq(solo.dealer) (+) solo.deck = new_deck
    /\ \A c \in BagToSet(new_deck) :
          CopiesIn(c, BagOfSeq(solo.player) (+) BagOfSeq(solo.dealer) (+) solo.deck) = 2
============================================================================
